---- MODULE Spec2Model ----
(***************************************************************************)
(* Focus Cycle Engine of ocean-flow-pomodoro: the phase state machine of   *)
(* PomodoroTimer.tsx driven through the useSessionSync hook, the shared    *)
(* active_sessions row, its change feed and the cycle_records log.         *)
(*                                                                         *)
(* Time is wall-clock milliseconds; session time fields are seconds.       *)
(***************************************************************************)
EXTENDS Integers, Sequences, FiniteSets, TLC

\* ------------------------------------------------------------------ bounds
Clients == {"c1", "c2"}

\* the wall clock stops advancing at MaxTime and moves in steps of ClockStep
MaxTime == 1000
ClockStep == 500
\* the countdown is only ticked through its last MaxCountdown seconds, and
\* the time editor is used to enter 0 or MaxCountdown seconds
MaxCountdown == 2
\* overtime is ticked up to MaxExtra seconds
MaxExtra == 1
\* immersion is entered at most MaxCycleCount times
MaxCycleCount == 1
\* at most MaxRecords record writes are attempted where the clock stands
\* still, at most MaxSyncRecords where it advances
MaxRecords == 2
MaxSyncRecords == 1
\* the page stays closed for AwayMs when the user leaves
AwayMs == 3000
\* the per-run observers stop counting at MaxRunCount
MaxRunCount == 2
\* at most MaxFeed undelivered change events per client
MaxFeed == 1

\* -------------------------------------------------------- program constants
phaseOrder == <<"immersion", "dive", "breath">>
Phases == {phaseOrder[i] : i \in 1..Len(phaseOrder)}

\* absent values: a null timestamp, a null phase, a null record id, a null
\* session and a cleared timeout handle
NullTime == -1
NoPhase == "none"
NoId == 0
NoSession == [none |-> TRUE]
NoTimeout == [none |-> TRUE]
\* no failed write, and a dashboard that has not loaded
NoUpdates == [none |-> TRUE]
NoDashboard == [none |-> TRUE]

SecondsPerMinute == 60
MsPerSecond == 1000
DebounceMs == 300
BufferMs == 500
DefaultImmersionMinutes == 25

\* lastUpdateRef starts at 0 on the epoch clock; on the model's clock, which
\* starts at 0 when the first page opens, that lies before any buffer
NeverWritten == 0 - (BufferMs + 1)

\* the pomodoro_settings rows the model is run with
defaultSettings == [immersionMinutes |-> 25, diveMinutes |-> 25, breathMinutes |-> 5]
SettingsChoices == {defaultSettings}

\* ------------------------------------------------------------------- state
VARIABLES
    now,                \* wall clock, ms
    settings,           \* the user's PomodoroSettings
    store,              \* the user's active_sessions row, or NoSession
    feed,               \* per client: change events not yet delivered
    cycleRecords,       \* the record writes attempted, in order
    status,             \* per client: "closed" or "ready"
    session,            \* per client: useSessionSync's session state
    lastUpdateRef,      \* per client: time of the last local write
    updateTimeoutRef,   \* per client: the pending debounced write
    startTimeRef,       \* per client: start of the phase run being timed
    pendingPhaseRef,    \* per client: phase to start on continue
    showPopup,          \* per client: the next-phase prompt is open
    showOverfocusPopup, \* per client: the overtime prompt is open
    showRatingPopup,    \* per client: the rating prompt is open
    lastBreathCycleId,  \* per client: record id awaiting a rating
    run,                \* per client, observer: what happened since the
                        \* last startPhase (records written, overtime entries)
    intervalSince,      \* per client: when the countdown interval was set,
                        \* NullTime while there is none
    unsent,             \* per client, observer: the content of the client's
                        \* last store write that failed, until a write succeeds
    dashboard           \* the statistics the dashboard page last computed

syncVars == <<session, lastUpdateRef, updateTimeoutRef, intervalSince>>
uiVars == <<startTimeRef, pendingPhaseRef, showPopup, showOverfocusPopup,
            showRatingPopup, lastBreathCycleId, run>>
sharedVars == <<now, settings, unsent, dashboard, store, feed, cycleRecords>>
vars == <<now, settings, unsent, dashboard, store, feed, cycleRecords, status, session,
          lastUpdateRef, updateTimeoutRef, startTimeRef, pendingPhaseRef,
          showPopup, showOverfocusPopup, showRatingPopup, lastBreathCycleId,
          run, intervalSince>>

\* ----------------------------------------------------------------- helpers
\* { ...prev, ...updates }
Merge(prev, updates) ==
    [f \in DOMAIN prev |-> IF f \in DOMAIN updates THEN updates[f] ELSE prev[f]]

\* values derived from the session on render
currentPhase(c) == IF session[c] = NoSession THEN "immersion" ELSE session[c].current_phase
timeLeft(c) == IF session[c] = NoSession THEN 0 ELSE session[c].time_left
isRunning(c) == IF session[c] = NoSession THEN FALSE ELSE session[c].is_running
cycleCount(c) == IF session[c] = NoSession THEN 0 ELSE session[c].cycle_count
isOvertime(c) == IF session[c] = NoSession THEN FALSE ELSE session[c].is_overtime
extraTime(c) == IF session[c] = NoSession THEN 0 ELSE session[c].extra_time_seconds

Max(a, b) == IF a >= b THEN a ELSE b
Min(a, b) == IF a <= b THEN a ELSE b

\* variant: the settings are not consulted, every phase gets the built-in
\* 25 minutes
getPhaseTimeBuiltIn(phase) == DefaultImmersionMinutes * SecondsPerMinute

getPhaseTime(phase) ==
    CASE phase = "immersion" -> settings.immersionMinutes * SecondsPerMinute
      [] phase = "dive" -> settings.diveMinutes * SecondsPerMinute
      [] phase = "breath" -> settings.breathMinutes * SecondsPerMinute

indexOf(phase) == CHOOSE i \in 1..Len(phaseOrder) : phaseOrder[i] = phase

\* variant: the index is not wrapped, after breath comes breath again
getNextPhaseNoWrap(current) == phaseOrder[Min(indexOf(current) + 1, Len(phaseOrder))]

getNextPhase(current) == phaseOrder[(indexOf(current) % Len(phaseOrder)) + 1]

\* stamped is the phase the session was in when startTimeRef was set
NewRun == [records |-> 0, overtimes |-> 0, stamped |-> NoPhase]

\* ------------------------------------------------------------------- Init
Init ==
    /\ now = 0
    /\ settings \in SettingsChoices
    /\ store = NoSession
    /\ feed = [c \in Clients |-> <<>>]
    /\ cycleRecords = <<>>
    /\ status = [c \in Clients |-> "closed"]
    /\ session = [c \in Clients |-> NoSession]
    /\ lastUpdateRef = [c \in Clients |-> NeverWritten]
    /\ updateTimeoutRef = [c \in Clients |-> NoTimeout]
    /\ startTimeRef = [c \in Clients |-> NullTime]
    /\ pendingPhaseRef = [c \in Clients |-> NoPhase]
    /\ showPopup = [c \in Clients |-> FALSE]
    /\ showOverfocusPopup = [c \in Clients |-> FALSE]
    /\ showRatingPopup = [c \in Clients |-> FALSE]
    /\ lastBreathCycleId = [c \in Clients |-> NoId]
    /\ run = [c \in Clients |-> NewRun]
    /\ intervalSince = [c \in Clients |-> NullTime]
    /\ unsent = [c \in Clients |-> NoUpdates]
    /\ dashboard = NoDashboard

\* ------------------------------------------------------ session synchronizer
\* the countdown effect after a setSession of client c: updateSession is made
\* anew with every session object and is a dependency of the effect, so the
\* interval is cleared and, while the session is running, set again
countdownEffect(c) ==
    intervalSince' = [intervalSince EXCEPT
                         ![c] = IF session'[c] # NoSession /\ session'[c].is_running
                                THEN now ELSE NullTime]

\* variant: a write that is already scheduled keeps its time, only its
\* content is replaced
updateSessionKeepsTimer(c, updates) ==
    IF session[c] = NoSession
    THEN UNCHANGED syncVars
    ELSE /\ session' = [session EXCEPT
                           ![c] = Merge(Merge(@, updates), [updated_at |-> now])]
         /\ lastUpdateRef' = [lastUpdateRef EXCEPT ![c] = now]
         /\ countdownEffect(c)
         /\ updateTimeoutRef' = [updateTimeoutRef EXCEPT
                                    ![c] = [updates |-> updates,
                                            due |-> IF @ = NoTimeout
                                                    THEN now + DebounceMs
                                                    ELSE @.due]]

\* useSessionSync.updateSession: optimistic local write, debounced store write
updateSession(c, updates) ==
    IF session[c] = NoSession
    THEN UNCHANGED syncVars
    ELSE /\ session' = [session EXCEPT
                           ![c] = Merge(Merge(@, updates), [updated_at |-> now])]
         /\ lastUpdateRef' = [lastUpdateRef EXCEPT ![c] = now]
         /\ countdownEffect(c)
         /\ updateTimeoutRef' = [updateTimeoutRef EXCEPT
                                    ![c] = [updates |-> updates,
                                            due |-> now + DebounceMs]]

\* variant: the remaining time is not floored at 0
ReconcileNoFloor(serverSession) ==
    LET elapsedSeconds == (now - serverSession.updated_at) \div MsPerSecond
    IN  IF serverSession.is_running /\ serverSession.started_at # NullTime
        THEN IF serverSession.is_overtime
             THEN [serverSession EXCEPT
                      !.extra_time_seconds = @ + elapsedSeconds]
             ELSE [serverSession EXCEPT
                      !.time_left = @ - elapsedSeconds]
        ELSE serverSession

\* the catch-up of fetchSession for a row that was stored running
Reconcile(serverSession) ==
    LET elapsedSeconds == (now - serverSession.updated_at) \div MsPerSecond
    IN  IF serverSession.is_running /\ serverSession.started_at # NullTime
        THEN IF serverSession.is_overtime
             THEN [serverSession EXCEPT
                      !.extra_time_seconds = @ + elapsedSeconds]
             ELSE [serverSession EXCEPT
                      !.time_left = Max(0, @ - elapsedSeconds)]
        ELSE serverSession

\* the row fetchSession inserts on first use
NewSessionRow(defaultTimeSeconds) ==
    [current_phase |-> "immersion",
     time_left |-> defaultTimeSeconds,
     total_time |-> defaultTimeSeconds,
     is_running |-> FALSE,
     cycle_count |-> 0,
     started_at |-> NullTime,
     updated_at |-> now,
     extra_time_seconds |-> 0,
     is_overtime |-> FALSE]

\* a change event reaches every client that is subscribed
Subscribers == {c \in Clients : status[c] \in {"ready", "creatingSubscribed"}}
FeedHasRoom == \A c \in Subscribers : Len(feed[c]) < MaxFeed
Broadcast(row) ==
    feed' = [c \in Clients |->
                IF c \in Subscribers THEN Append(feed[c], row) ELSE feed[c]]

\* fetchSession: ok is the outcome of the store calls, settingsLoaded whether
\* the settings had arrived when the effect ran
fetchSession(c, ok, settingsLoaded) ==
    IF ~ok
    THEN UNCHANGED <<session, intervalSince, store, feed>>
    ELSE IF store # NoSession
    THEN /\ session' = [session EXCEPT ![c] = Reconcile(store)]
         /\ countdownEffect(c)
         /\ UNCHANGED <<store, feed>>
    ELSE LET minutes == IF settingsLoaded THEN settings.immersionMinutes
                        ELSE DefaultImmersionMinutes
             created == NewSessionRow(minutes * SecondsPerMinute)
         IN  /\ FeedHasRoom
             /\ store' = created
             /\ Broadcast(created)
             /\ session' = [session EXCEPT ![c] = created]
             /\ countdownEffect(c)

\* a client opens the timer page: fresh component state, then fetchSession
Load(c, ok, settingsLoaded) ==
    /\ status[c] = "closed"
    /\ status' = [status EXCEPT ![c] = "ready"]
    /\ fetchSession(c, ok, settingsLoaded)
    /\ UNCHANGED <<now, settings, unsent, dashboard, cycleRecords, lastUpdateRef,
                   updateTimeoutRef, uiVars>>

\* fetchSession in its steps, for clients that open at the same time.  The
\* select: a row that exists is taken as in Load; with no row the client goes
\* on to insert one ("creating")
selectSession(c) ==
    /\ status[c] = "closed"
    /\ IF store # NoSession
       THEN Load(c, TRUE, TRUE)
       ELSE /\ status' = [status EXCEPT ![c] = "creating"]
            /\ UNCHANGED <<sharedVars, syncVars, uiVars>>

\* the channel of the change feed is joined while the insert is on its way
subscribe(c) ==
    /\ status[c] = "creating"
    /\ status' = [status EXCEPT ![c] = "creatingSubscribed"]
    /\ UNCHANGED <<sharedVars, syncVars, uiVars>>

\* the insert: the table holds one row per user, so the insert of a client
\* that finds a row made in the meantime fails, the error is logged and the
\* local session is left as it is
insertSession(c) ==
    /\ status[c] \in {"creating", "creatingSubscribed"}
    /\ status' = [status EXCEPT ![c] = "ready"]
    /\ IF store = NoSession
       THEN LET created == NewSessionRow(settings.immersionMinutes
                                             * SecondsPerMinute)
            IN  /\ FeedHasRoom
                /\ store' = created
                /\ Broadcast(created)
                /\ session' = [session EXCEPT ![c] = created]
                /\ countdownEffect(c)
       ELSE UNCHANGED <<session, intervalSince, store, feed>>
    /\ UNCHANGED <<now, settings, unsent, dashboard, cycleRecords, lastUpdateRef,
                   updateTimeoutRef, uiVars>>

\* a client closes the page: component state, subscription and the pending
\* debounced write are gone
Close(c) ==
    /\ status[c] = "ready"
    /\ status' = [status EXCEPT ![c] = "closed"]
    /\ session' = [session EXCEPT ![c] = NoSession]
    /\ countdownEffect(c)
    /\ lastUpdateRef' = [lastUpdateRef EXCEPT ![c] = NeverWritten]
    /\ updateTimeoutRef' = [updateTimeoutRef EXCEPT ![c] = NoTimeout]
    /\ startTimeRef' = [startTimeRef EXCEPT ![c] = NullTime]
    /\ pendingPhaseRef' = [pendingPhaseRef EXCEPT ![c] = NoPhase]
    /\ showPopup' = [showPopup EXCEPT ![c] = FALSE]
    /\ showOverfocusPopup' = [showOverfocusPopup EXCEPT ![c] = FALSE]
    /\ showRatingPopup' = [showRatingPopup EXCEPT ![c] = FALSE]
    /\ lastBreathCycleId' = [lastBreathCycleId EXCEPT ![c] = NoId]
    /\ run' = [run EXCEPT ![c] = NewRun]
    /\ feed' = [feed EXCEPT ![c] = <<>>]
    /\ unsent' = [unsent EXCEPT ![c] = NoUpdates]
    /\ UNCHANGED <<now, settings, dashboard, store, cycleRecords>>

\* variant: a failed update puts the stored row back into the local session
FlushRollsBack(c, ok) ==
    /\ updateTimeoutRef[c] # NoTimeout
    /\ now >= updateTimeoutRef[c].due
    /\ updateTimeoutRef' = [updateTimeoutRef EXCEPT ![c] = NoTimeout]
    /\ IF ok /\ store # NoSession
       THEN LET row == Merge(Merge(store, updateTimeoutRef[c].updates),
                             [updated_at |-> now])
            IN  /\ FeedHasRoom
                /\ store' = row
                /\ Broadcast(row)
                /\ UNCHANGED <<session, intervalSince>>
       ELSE /\ session' = [session EXCEPT ![c] = store]
            /\ countdownEffect(c)
            /\ UNCHANGED <<store, feed>>
    /\ unsent' = [unsent EXCEPT ![c] = IF ok /\ store # NoSession
                                        THEN NoUpdates
                                        ELSE updateTimeoutRef[c].updates]
    /\ UNCHANGED <<now, settings, dashboard, cycleRecords, status,
                   lastUpdateRef, uiVars>>

\* the debounce timer of updateSession fires: ok is the outcome of the update
Flush(c, ok) ==
    /\ updateTimeoutRef[c] # NoTimeout
    /\ now >= updateTimeoutRef[c].due
    /\ updateTimeoutRef' = [updateTimeoutRef EXCEPT ![c] = NoTimeout]
    /\ IF ok /\ store # NoSession
       THEN LET row == Merge(Merge(store, updateTimeoutRef[c].updates),
                             [updated_at |-> now])
            IN  /\ FeedHasRoom
                /\ store' = row
                /\ Broadcast(row)
       ELSE UNCHANGED <<store, feed>>
    /\ unsent' = [unsent EXCEPT ![c] = IF ok /\ store # NoSession
                                        THEN NoUpdates
                                        ELSE updateTimeoutRef[c].updates]
    /\ UNCHANGED <<now, settings, dashboard, cycleRecords, status, session,
                   intervalSince, lastUpdateRef, uiVars>>

\* variant: an event as old as the end of the buffer is applied as well
RemoteAppliesInclusive(c, newData) == newData.updated_at >= lastUpdateRef[c] + BufferMs

\* the realtime subscription callback for an INSERT or UPDATE event
RemoteApplies(c, newData) == newData.updated_at > lastUpdateRef[c] + BufferMs

\* variant: an applied record is counted as one more cycle on top of the
\* local count
onChangeCountsCycle(prev, c, newData) ==
    IF RemoteApplies(c, newData)
    THEN [newData EXCEPT !.cycle_count = prev.cycle_count + 1]
    ELSE prev

\* the session the callback leaves behind, given the session it found
onChange(prev, c, newData) ==
    IF RemoteApplies(c, newData) THEN newData ELSE prev

\* variant: every event is applied, whatever its time
DeliverUnguarded(c) ==
    /\ feed[c] # <<>>
    /\ feed' = [feed EXCEPT ![c] = Tail(@)]
    /\ session' = [session EXCEPT ![c] = Head(feed[c])]
    /\ countdownEffect(c)
    /\ UNCHANGED <<now, settings, unsent, dashboard, store, cycleRecords, status,
                   lastUpdateRef, updateTimeoutRef, uiVars>>

Deliver(c) ==
    /\ feed[c] # <<>>
    /\ feed' = [feed EXCEPT ![c] = Tail(@)]
    /\ session' = [session EXCEPT ![c] = onChange(@, c, Head(feed[c]))]
    /\ IF RemoteApplies(c, Head(feed[c]))
       THEN countdownEffect(c)
       ELSE UNCHANGED intervalSince
    /\ UNCHANGED <<now, settings, unsent, dashboard, store, cycleRecords, status,
                   lastUpdateRef, updateTimeoutRef, uiVars>>

\* the wall clock advances, up to the given limit
AdvanceUntil(limit) ==
    /\ now + ClockStep <= limit
    /\ now' = now + ClockStep
    /\ UNCHANGED <<settings, unsent, dashboard, store, feed, cycleRecords, status, syncVars, uiVars>>

\* the wall clock advances
Advance ==
    /\ now + ClockStep <= MaxTime
    /\ now' = now + ClockStep
    /\ UNCHANGED <<settings, unsent, dashboard, store, feed, cycleRecords, status, syncVars, uiVars>>

\* the wall clock advances, debounce timers firing on time: no write that is
\* due stays pending while the clock moves on
AdvancePunctual ==
    /\ \A c \in Clients :
          updateTimeoutRef[c] # NoTimeout => updateTimeoutRef[c].due > now
    /\ Advance

\* the wall clock advances by a long stretch while no client is open
Away ==
    /\ \A c \in Clients : status[c] = "closed"
    /\ store # NoSession
    /\ now <= MaxTime
    /\ now' = now + AwayMs
    /\ UNCHANGED <<settings, unsent, dashboard, store, feed, cycleRecords, status, syncVars, uiVars>>

\* ------------------------------------------------------------ cycle recorder
\* saveCycle: one write to cycle_records unless no start time is known; ok is
\* the outcome of the insert, a failed insert stores no row and returns no
\* id.  The record's end time, tag, actions and track are not modelled here.
saveCycle(c, completed, ok) ==
    IF startTimeRef[c] # NullTime
    THEN /\ cycleRecords' =
                IF ok
                THEN Append(cycleRecords,
                         [phase |-> currentPhase(c),
                          startTime |-> startTimeRef[c],
                          completed |-> completed,
                          rating |-> 0,
                          id |-> Len(cycleRecords) + 1,
                          writer |-> c])
                ELSE cycleRecords
         /\ run' = [run EXCEPT ![c].records = Min(@ + 1, MaxRunCount)]
    ELSE UNCHANGED <<cycleRecords, run>>

\* the id saveCycle returns
cycleIdOf(c, ok) ==
    IF startTimeRef[c] # NullTime /\ ok THEN Len(cycleRecords) + 1 ELSE NoId

\* variant: the rating prompt opens for every completed breath phase
askRatingWithoutId(c, cycleId) ==
    IF currentPhase(c) = "breath"
    THEN /\ lastBreathCycleId' = [lastBreathCycleId EXCEPT ![c] = cycleId]
         /\ showRatingPopup' = [showRatingPopup EXCEPT ![c] = TRUE]
    ELSE UNCHANGED <<lastBreathCycleId, showRatingPopup>>

\* the rating prompt opens for a completed breath phase whose record has an id
askRating(c, cycleId) ==
    IF currentPhase(c) = "breath" /\ cycleId # NoId
    THEN /\ lastBreathCycleId' = [lastBreathCycleId EXCEPT ![c] = cycleId]
         /\ showRatingPopup' = [showRatingPopup EXCEPT ![c] = TRUE]
    ELSE UNCHANGED <<lastBreathCycleId, showRatingPopup>>

\* the next phase is remembered and the next-phase prompt opens
promptNext(c) ==
    /\ pendingPhaseRef' = [pendingPhaseRef EXCEPT ![c] = getNextPhase(currentPhase(c))]
    /\ showPopup' = [showPopup EXCEPT ![c] = TRUE]

\* ------------------------------------------------------- phase state machine
\* variant: every phase start counts a cycle
startPhaseCountsEveryPhase(c, phase) ==
    /\ startTimeRef' = [startTimeRef EXCEPT ![c] = now]
    /\ updateSession(c,
          [current_phase |-> phase,
           time_left |-> getPhaseTime(phase),
           total_time |-> getPhaseTime(phase),
           is_running |-> TRUE,
           started_at |-> now,
           is_overtime |-> FALSE,
           extra_time_seconds |-> 0,
           cycle_count |-> cycleCount(c) + 1])
    /\ showPopup' = [showPopup EXCEPT ![c] = FALSE]
    /\ run' = [run EXCEPT ![c] = [NewRun EXCEPT !.stamped = phase]]

startPhase(c, phase) ==
    /\ startTimeRef' = [startTimeRef EXCEPT ![c] = now]
    /\ updateSession(c,
          [current_phase |-> phase,
           time_left |-> getPhaseTime(phase),
           total_time |-> getPhaseTime(phase),
           is_running |-> TRUE,
           started_at |-> now,
           is_overtime |-> FALSE,
           extra_time_seconds |-> 0,
           cycle_count |-> IF phase = "immersion" THEN cycleCount(c) + 1
                           ELSE cycleCount(c)])
    /\ showPopup' = [showPopup EXCEPT ![c] = FALSE]
    /\ run' = [run EXCEPT ![c] = [NewRun EXCEPT !.stamped = phase]]

\* variant: the end of the countdown moves on to the next phase by itself
handlePhaseCompleteAdvances(c) ==
    /\ updateSession(c, [current_phase |-> getNextPhase(currentPhase(c)),
                         is_overtime |-> TRUE, is_running |-> TRUE,
                         extra_time_seconds |-> 0])
    /\ showOverfocusPopup' = [showOverfocusPopup EXCEPT ![c] = TRUE]
    /\ run' = [run EXCEPT ![c].overtimes = Min(@ + 1, MaxRunCount)]

handlePhaseComplete(c) ==
    /\ updateSession(c, [is_overtime |-> TRUE, is_running |-> TRUE,
                         extra_time_seconds |-> 0])
    /\ showOverfocusPopup' = [showOverfocusPopup EXCEPT ![c] = TRUE]
    /\ run' = [run EXCEPT ![c].overtimes = Min(@ + 1, MaxRunCount)]

\* variant: the tick writes back the remaining time it read
TickBelowKeepsTime(c, countdown) ==
    /\ status[c] = "ready"
    /\ isRunning(c)
    /\ IF isOvertime(c)
       THEN /\ extraTime(c) < MaxExtra
            /\ updateSession(c, [extra_time_seconds |-> extraTime(c) + 1])
            /\ UNCHANGED <<showOverfocusPopup, run>>
       ELSE IF timeLeft(c) < 1
       THEN handlePhaseComplete(c)
       ELSE /\ timeLeft(c) <= countdown
            /\ updateSession(c, [time_left |-> timeLeft(c)])
            /\ UNCHANGED <<showOverfocusPopup, run>>
    /\ UNCHANGED <<sharedVars, status, startTimeRef, pendingPhaseRef,
                   showPopup, showRatingPopup, lastBreathCycleId>>

\* one firing of the countdown interval
TickBelow(c, countdown) ==
    /\ status[c] = "ready"
    /\ isRunning(c)
    /\ IF isOvertime(c)
       THEN /\ extraTime(c) < MaxExtra
            /\ updateSession(c, [extra_time_seconds |-> extraTime(c) + 1])
            /\ UNCHANGED <<showOverfocusPopup, run>>
       ELSE IF timeLeft(c) <= 1
       THEN handlePhaseComplete(c)
       ELSE /\ timeLeft(c) <= countdown
            /\ updateSession(c, [time_left |-> timeLeft(c) - 1])
            /\ UNCHANGED <<showOverfocusPopup, run>>
    /\ UNCHANGED <<sharedVars, status, startTimeRef, pendingPhaseRef,
                   showPopup, showRatingPopup, lastBreathCycleId>>

Tick(c) == TickBelow(c, MaxCountdown)

\* variant: the interval keeps firing without being cleared by the change of
\* the session that its own callback makes
IntervalFiresUncleared(c, countdown) ==
    /\ intervalSince[c] # NullTime
    /\ TickBelow(c, countdown)

\* the countdown interval of client c fires, a second after it was set
IntervalFires(c, countdown) ==
    /\ intervalSince[c] # NullTime
    /\ now >= intervalSince[c] + MsPerSecond
    /\ TickBelow(c, countdown)

handleOverfocusDecision(c, includeExtraTime, ok) ==
    /\ status[c] = "ready"
    /\ showOverfocusPopup[c]
    /\ showOverfocusPopup' = [showOverfocusPopup EXCEPT ![c] = FALSE]
    /\ updateSession(c, [is_running |-> FALSE, is_overtime |-> FALSE])
    /\ saveCycle(c, TRUE, ok)
    /\ askRating(c, cycleIdOf(c, ok))
    /\ promptNext(c)
    /\ UNCHANGED <<now, settings, unsent, dashboard, store, feed, status, startTimeRef>>

handleSkip(c, ok) ==
    /\ status[c] = "ready"
    /\ updateSession(c, [is_running |-> FALSE, is_overtime |-> FALSE])
    /\ saveCycle(c, FALSE, ok)
    /\ promptNext(c)
    /\ UNCHANGED <<now, settings, unsent, dashboard, store, feed, status, startTimeRef,
                   showOverfocusPopup, showRatingPopup, lastBreathCycleId>>

\* the "complete phase" button is rendered while running and not in overtime
handleCompleteCycle(c, ok) ==
    /\ status[c] = "ready"
    /\ isRunning(c) /\ ~isOvertime(c)
    /\ updateSession(c, [is_running |-> FALSE, is_overtime |-> FALSE])
    /\ saveCycle(c, TRUE, ok)
    /\ askRating(c, cycleIdOf(c, ok))
    /\ promptNext(c)
    /\ UNCHANGED <<now, settings, unsent, dashboard, store, feed, status, startTimeRef,
                   showOverfocusPopup>>

handlePlayPause(c) ==
    /\ status[c] = "ready"
    /\ startTimeRef' = [startTimeRef EXCEPT
                           ![c] = IF ~isRunning(c) /\ @ = NullTime THEN now ELSE @]
    /\ updateSession(c,
          [is_running |-> ~isRunning(c),
           started_at |-> IF ~isRunning(c) \/ session[c] = NoSession THEN now
                          ELSE session[c].started_at])
    /\ run' = [run EXCEPT
                  ![c].stamped = IF ~isRunning(c) /\ startTimeRef[c] = NullTime
                                 THEN currentPhase(c) ELSE @]
    /\ UNCHANGED <<sharedVars, status, pendingPhaseRef, showPopup,
                   showOverfocusPopup, showRatingPopup, lastBreathCycleId>>

\* "continue" in the next-phase prompt
handleContinue(c) ==
    /\ status[c] = "ready"
    /\ showPopup[c]
    /\ pendingPhaseRef[c] # NoPhase
    /\ pendingPhaseRef[c] = "immersion" => cycleCount(c) < MaxCycleCount
    /\ startPhase(c, pendingPhaseRef[c])
    /\ pendingPhaseRef' = [pendingPhaseRef EXCEPT ![c] = NoPhase]
    /\ UNCHANGED <<sharedVars, status, showOverfocusPopup, showRatingPopup,
                   lastBreathCycleId>>

\* "wait" in the next-phase prompt
handleWait(c) ==
    /\ status[c] = "ready"
    /\ showPopup[c]
    /\ showPopup' = [showPopup EXCEPT ![c] = FALSE]
    /\ UNCHANGED <<sharedVars, status, syncVars, startTimeRef, pendingPhaseRef,
                   showOverfocusPopup, showRatingPopup, lastBreathCycleId, run>>

\* variant: the editor's save hands over any value, 0 included
handleTimeChangeAnyValue(c, newTimeSeconds) ==
    /\ status[c] = "ready"
    /\ ~isRunning(c) /\ ~isOvertime(c)
    /\ updateSession(c, [time_left |-> newTimeSeconds,
                         total_time |-> newTimeSeconds])
    /\ UNCHANGED <<sharedVars, status, uiVars>>

\* the time editor's save: offered while paused and not in overtime, a value
\* that is not positive is dropped
handleTimeChange(c, newTimeSeconds) ==
    /\ status[c] = "ready"
    /\ ~isRunning(c) /\ ~isOvertime(c)
    /\ newTimeSeconds > 0
    /\ updateSession(c, [time_left |-> newTimeSeconds,
                         total_time |-> newTimeSeconds])
    /\ UNCHANGED <<sharedVars, status, uiVars>>

\* updateCycleRatingAsync: sets the rating of the record with that id
\* variant: the update is not restricted to the record of the given id
updateCycleRatingEveryRow(cycleId, rating) ==
    [i \in 1..Len(cycleRecords) |-> [cycleRecords[i] EXCEPT !.rating = rating]]

\* update({rating}).eq('id', cycleId) on cycle_records
updateCycleRating(cycleId, rating) ==
    [i \in 1..Len(cycleRecords) |->
        IF cycleRecords[i].id = cycleId
        THEN [cycleRecords[i] EXCEPT !.rating = rating]
        ELSE cycleRecords[i]]

RatingChoices == {1, 5}

handleRatingSubmit(c, rating, ok) ==
    /\ status[c] = "ready"
    /\ showRatingPopup[c]
    /\ IF lastBreathCycleId[c] # NoId
       THEN /\ cycleRecords' = IF ok
                               THEN updateCycleRating(lastBreathCycleId[c], rating)
                               ELSE cycleRecords
            /\ lastBreathCycleId' = [lastBreathCycleId EXCEPT ![c] = NoId]
       ELSE UNCHANGED <<cycleRecords, lastBreathCycleId>>
    /\ showRatingPopup' = [showRatingPopup EXCEPT ![c] = FALSE]
    /\ UNCHANGED <<now, settings, unsent, dashboard, store, feed, status, syncVars, startTimeRef,
                   pendingPhaseRef, showPopup, showOverfocusPopup, run>>

handleRatingSkip(c) ==
    /\ status[c] = "ready"
    /\ showRatingPopup[c]
    /\ lastBreathCycleId' = [lastBreathCycleId EXCEPT ![c] = NoId]
    /\ showRatingPopup' = [showRatingPopup EXCEPT ![c] = FALSE]
    /\ UNCHANGED <<sharedVars, status, syncVars, startTimeRef,
                   pendingPhaseRef, showPopup, showOverfocusPopup, run>>

\* ------------------------------------------------------------ specification
Solo == {"c1"}
RecordsBelow(cap) == Len(cycleRecords) < cap

\* the user's operations on the timer page of client c
Operate(c, cap) ==
    \/ Tick(c)
    \/ handlePlayPause(c)
    \/ RecordsBelow(cap) /\ handleSkip(c, TRUE)
    \/ RecordsBelow(cap) /\ handleCompleteCycle(c, TRUE)
    \/ \E includeExtraTime \in BOOLEAN :
          RecordsBelow(cap) /\ handleOverfocusDecision(c, includeExtraTime, TRUE)
    \/ handleContinue(c)
    \/ handleWait(c)
    \/ \E n \in {0, MaxCountdown} : handleTimeChange(c, n)

\* Spec: one client, the shared store and the change feed under a wall clock;
\* every store call succeeds
Next ==
    \/ Advance
    \/ Away
    \/ \E c \in Solo : Load(c, TRUE, TRUE)
    \/ \E c \in Solo : Close(c)
    \/ \E c \in Solo : Flush(c, TRUE)
    \/ \E c \in Solo : Deliver(c)
    \/ \E c \in Solo : Operate(c, MaxSyncRecords)

Spec == Init /\ [][Next]_vars

\* SpecLocal: one client at one instant, so no store write and no change
\* event happens; with the rating prompt
NextLocal ==
    \/ \E c \in Solo : Load(c, TRUE, TRUE)
    \/ \E c \in Solo : Close(c)
    \/ \E c \in Solo : Operate(c, MaxRecords)
    \/ \E c \in Solo, r \in RatingChoices : handleRatingSubmit(c, r, TRUE)
    \/ \E c \in Solo : handleRatingSkip(c)

SpecLocal == Init /\ [][NextLocal]_vars

\* SpecTwo: two clients on the same session, exchanging writes through the
\* store and the change feed; the debounce timers fire on time
NextTwo ==
    \/ AdvancePunctual
    \/ \E c \in Clients : Load(c, TRUE, TRUE)
    \/ \E c \in Clients : Flush(c, TRUE)
    \/ \E c \in Clients : Deliver(c)
    \/ \E c \in Clients : handlePlayPause(c)
    \/ \E c \in Clients : RecordsBelow(MaxSyncRecords) /\ handleSkip(c, TRUE)
    \/ \E c \in Clients : handleContinue(c)
    \/ \E c \in Clients : handleWait(c)

SpecTwo == Init /\ [][NextTwo]_vars

\* SpecWriteFail: one client whose store updates may fail
NextWriteFail ==
    \/ Advance
    \/ \E c \in Solo : Load(c, TRUE, TRUE)
    \/ \E c \in Solo, ok \in BOOLEAN : Flush(c, ok)
    \/ \E c \in Solo : Deliver(c)
    \/ \E c \in Solo : Tick(c)
    \/ \E c \in Solo : handlePlayPause(c)
    \/ \E c \in Solo, n \in {0, MaxCountdown} : handleTimeChange(c, n)

SpecWriteFail == Init /\ [][NextWriteFail]_vars

\* SpecFirstUse: two clients that open while the user has no row yet, the
\* fetch taken in its steps
NextFirstUse ==
    \/ AdvancePunctual
    \/ \E c \in Clients : selectSession(c)
    \/ \E c \in Clients : subscribe(c)
    \/ \E c \in Clients : insertSession(c)
    \/ \E c \in Clients : Flush(c, TRUE)
    \/ \E c \in Clients : Deliver(c)
    \/ \E c \in Clients : handlePlayPause(c)

SpecFirstUse == Init /\ [][NextFirstUse]_vars

\* SpecRecordFail: one client at one instant whose writes to cycle_records
\* may fail
NextRecordFail ==
    \/ \E c \in Solo : Load(c, TRUE, TRUE)
    \/ \E c \in Solo : Close(c)
    \/ \E c \in Solo : Tick(c)
    \/ \E c \in Solo : handlePlayPause(c)
    \/ \E c \in Solo, ok \in BOOLEAN :
          RecordsBelow(MaxRecords) /\ handleSkip(c, ok)
    \/ \E c \in Solo, ok \in BOOLEAN :
          RecordsBelow(MaxRecords) /\ handleCompleteCycle(c, ok)
    \/ \E c \in Solo, includeExtraTime \in BOOLEAN, ok \in BOOLEAN :
          RecordsBelow(MaxRecords)
              /\ handleOverfocusDecision(c, includeExtraTime, ok)
    \/ \E c \in Solo : handleContinue(c)
    \/ \E c \in Solo : handleWait(c)
    \/ \E c \in Solo, n \in {0, MaxCountdown} : handleTimeChange(c, n)
    \/ \E c \in Solo, r \in RatingChoices, ok \in BOOLEAN :
          handleRatingSubmit(c, r, ok)
    \/ \E c \in Solo : handleRatingSkip(c)

SpecRecordFail == Init /\ [][NextRecordFail]_vars

\* SpecPaced: two clients on one session whose countdown intervals fire on
\* the clock.  The first client starts the session, from a full countdown
\* whose time edit has been written: a resumed countdown or one whose edit is
\* still pending has no start time and total time to measure it against
PacedHorizon == MaxTime + 3 * MsPerSecond

StartsFresh(c) ==
    /\ session[c] # NoSession
    /\ ~isRunning(c)
    /\ updateTimeoutRef[c] = NoTimeout
    /\ session[c].time_left = session[c].total_time

NextPaced ==
    \/ AdvanceUntil(PacedHorizon)
    \/ \E c \in Clients : Load(c, TRUE, TRUE)
    \/ \E c \in Clients : Flush(c, TRUE)
    \/ \E c \in Clients : Deliver(c)
    \/ \E c \in Solo : StartsFresh(c) /\ handlePlayPause(c)
    \/ \E c \in Solo : handleTimeChange(c, MaxCountdown + 1)
    \/ \E c \in Clients : IntervalFires(c, MaxCountdown + 1)

SpecPaced == Init /\ [][NextPaced]_vars

\* SpecCountdown: one client at one instant that starts the countdown, from
\* the phase time or from an edited time, and lets it run: no pause, skip,
\* complete-now or change event.  While the session is running the interval
\* of the countdown effect keeps firing, which is weak fairness of the tick
CountdownTick(c) == TickBelow(c, getPhaseTime("immersion"))

NextCountdown ==
    \/ \E c \in Solo : Load(c, TRUE, TRUE)
    \/ \E c \in Solo : ~isRunning(c) /\ handlePlayPause(c)
    \/ \E c \in Solo, n \in {1, MaxCountdown} : handleTimeChange(c, n)
    \/ \E c \in Solo : CountdownTick(c)

SpecCountdown ==
    /\ Init
    /\ [][NextCountdown]_vars
    /\ \A c \in Solo : WF_vars(CountdownTick(c))

\* SpecPartial: one client whose debounced writes carry the fields of the
\* last update only, with time edits that differ by more than one tick
NextPartial ==
    \/ Advance
    \/ \E c \in Solo : Load(c, TRUE, TRUE)
    \/ \E c \in Solo : Close(c)
    \/ \E c \in Solo : Flush(c, TRUE)
    \/ \E c \in Solo : Deliver(c)
    \/ \E c \in Solo : TickBelow(c, MaxCountdown + 1)
    \/ \E c \in Solo : handlePlayPause(c)
    \/ \E c \in Solo, n \in {1, MaxCountdown + 1} : handleTimeChange(c, n)

SpecPartial == Init /\ [][NextPartial]_vars

\* ------------------------------------------------------ analytics aggregator
\* The rows of cycle_records as the statistics read them: phase, startTime,
\* endTime, created_at, completed, tag, rating (0: none), track and artist
\* (none: no track captured), id.  Times are in ms; the free-text actions
\* and the album are left out.  A tag and a track name are strings that the
\* statistics take apart, so they are sequences of characters; a stretch of
\* characters that is never taken apart is written as one element.
MaxLog == 3
MaxPeriod == 2
MsPerMinute == 60000
MsPerDay == 24 * 60 * MsPerMinute
NoTag == <<>>
NoTrack == <<>>
NoArtist == ""
UntaggedBucket == <<"Sem tag">>
NoMusicBucket == "Sem musica"
TagChoices == {NoTag, <<"A">>, <<"B">>}
ArtistChoices == {NoArtist, "X"}
DurationChoices == {5 * MsPerMinute, 9 * MsPerMinute + MsPerMinute \div 2}
TimeZoneChoices == {0, 3 * 60 * MsPerMinute}
\* the first phase of the log starts five minutes before a UTC midnight
FirstStart == (MaxPeriod + 1) * MsPerDay - 5 * MsPerMinute

\* the instant the last stored phase ended
logClock ==
    IF cycleRecords = <<>> THEN FirstStart
    ELSE cycleRecords[Len(cycleRecords)].endTime

\* saveCycleRecordAsync: one row appended at the end of a phase that started
\* when the phase before it ended; the timer page is open, the dashboard is not
saveCycleRecord(phase, completed, tag, track, artist, duration) ==
    /\ cycleRecords' = Append(cycleRecords,
            [id |-> Len(cycleRecords) + 1,
             phase |-> phase,
             startTime |-> logClock,
             endTime |-> logClock + duration,
             created_at |-> logClock + duration,
             completed |-> completed,
             tag |-> tag,
             rating |-> 0,
             track |-> track,
             artist |-> artist])
    /\ dashboard' = NoDashboard
    /\ UNCHANGED <<now, settings, unsent, store, feed, status, syncVars,
                   uiVars>>

\* updateCycleRatingAsync as the timer page calls it: for a completed breath
\* record, once
rateCycle(cycleId, rating) ==
    /\ \E i \in DOMAIN cycleRecords :
          /\ cycleRecords[i].id = cycleId
          /\ cycleRecords[i].phase = "breath"
          /\ cycleRecords[i].completed
          /\ cycleRecords[i].rating = 0
    /\ cycleRecords' = updateCycleRating(cycleId, rating)
    /\ dashboard' = NoDashboard
    /\ UNCHANGED <<now, settings, unsent, store, feed, status, syncVars,
                   uiVars>>

\* Math.round((endTime - startTime) / 60000), endTime >= startTime
durationMinutes(cycle) ==
    (cycle.endTime - cycle.startTime + MsPerMinute \div 2) \div MsPerMinute

\* toISOString().split('T')[0]: the UTC calendar day, as a day number
utcDate(t) == t \div MsPerDay

\* date-fns startOfDay, endOfDay, subDays in a zone whose midnight is tz ms
\* after the UTC midnight
startOfDay(t, tz) == ((t - tz) \div MsPerDay) * MsPerDay + tz
endOfDay(t, tz) == startOfDay(t, tz) + MsPerDay - 1
subDays(t, amount) == t - amount * MsPerDay

inRange(row, startDate, endDate) ==
    row.created_at >= startDate /\ row.created_at <= endDate

\* getCyclesAsync: the rows created in the range, oldest first
getCycles(startDate, endDate) ==
    SelectSeq(cycleRecords, LAMBDA row : inRange(row, startDate, endDate))

\* Array.sort by descending weight (stable) of a sequence of
\* <<weight, entry>> pairs
placeAfterHeavier(sorted, pair) ==
    LET n == Cardinality({k \in DOMAIN sorted : sorted[k][1] >= pair[1]})
    IN  SubSeq(sorted, 1, n) \o <<pair>> \o SubSeq(sorted, n + 1, Len(sorted))

RECURSIVE sortDescending(_, _)
sortDescending(pairs, sorted) ==
    IF pairs = <<>> THEN sorted
    ELSE sortDescending(Tail(pairs), placeAfterHeavier(sorted, Head(pairs)))

\* ---- getTagStatsAsync
\* the position of a tag in the map, 0 if it has no entry
tagIndex(tagMap, tag) ==
    IF \E k \in DOMAIN tagMap : tagMap[k].tag = tag
    THEN CHOOSE k \in DOMAIN tagMap : tagMap[k].tag = tag
    ELSE 0

\* first loop: every immersion record with a tag registers its tag
RECURSIVE countImmersions(_, _, _)
countImmersions(cycles, i, tagMap) ==
    IF i > Len(cycles) THEN tagMap
    ELSE IF cycles[i].phase = "immersion" /\ cycles[i].tag # NoTag
    THEN LET k == tagIndex(tagMap, cycles[i].tag)
         IN  countImmersions(cycles, i + 1,
                 IF k = 0
                 THEN Append(tagMap, [tag |-> cycles[i].tag,
                                      cycleCount |-> 1,
                                      totalTimeMinutes |-> 0])
                 ELSE [tagMap EXCEPT ![k].cycleCount = @ + 1])
    ELSE countImmersions(cycles, i + 1, tagMap)

\* the backward scan for (j = diveIndex - 1; j >= 0; j--)
RECURSIVE scanBack(_, _)
scanBack(cycles, j) ==
    IF j = 0 THEN UntaggedBucket
    ELSE IF cycles[j].phase = "immersion" /\ cycles[j].tag # NoTag
    THEN cycles[j].tag
    ELSE scanBack(cycles, j - 1)

\* variant: the scan starts at the end of the log
associatedTagOfLatest(cycles, diveIndex) == scanBack(cycles, Len(cycles))

associatedTag(cycles, diveIndex) == scanBack(cycles, diveIndex - 1)

\* second loop: every completed dive record adds its minutes to its tag
RECURSIVE addDives(_, _, _)
addDives(cycles, i, tagMap) ==
    IF i > Len(cycles) THEN tagMap
    ELSE IF cycles[i].phase = "dive" /\ cycles[i].completed
    THEN LET tag == associatedTag(cycles, i)
             k == tagIndex(tagMap, tag)
         IN  addDives(cycles, i + 1,
                 IF k = 0
                 THEN Append(tagMap, [tag |-> tag,
                                      cycleCount |-> 1,
                                      totalTimeMinutes |->
                                          durationMinutes(cycles[i])])
                 ELSE [tagMap EXCEPT ![k].totalTimeMinutes =
                                         @ + durationMinutes(cycles[i])])
    ELSE addDives(cycles, i + 1, tagMap)

getTagStats(startDate, endDate) ==
    LET cycles == getCycles(startDate, endDate)
        tagMap == addDives(cycles, 1, countImmersions(cycles, 1, <<>>))
        sorted == sortDescending(
                      [k \in DOMAIN tagMap |->
                          <<tagMap[k].totalTimeMinutes, tagMap[k]>>], <<>>)
    IN  [k \in DOMAIN sorted |-> sorted[k][2]]

\* ---- getTotalCompletedCyclesAsync, getTotalFocusMinutesAsync
getTotalCompletedCycles(startDate, endDate) ==
    Len(SelectSeq(cycleRecords,
            LAMBDA row : /\ row.phase = "breath"
                         /\ row.completed
                         /\ inRange(row, startDate, endDate)))

RECURSIVE totalMinutesOf(_)
totalMinutesOf(diveCycles) ==
    IF diveCycles = <<>> THEN 0
    ELSE durationMinutes(Head(diveCycles)) + totalMinutesOf(Tail(diveCycles))

\* variant: skipped dive records count as well
getTotalFocusMinutesEveryDive(startDate, endDate) ==
    totalMinutesOf(SelectSeq(getCycles(startDate, endDate),
                             LAMBDA c : c.phase = "dive"))

getTotalFocusMinutes(startDate, endDate) ==
    totalMinutesOf(SelectSeq(getCycles(startDate, endDate),
                             LAMBDA c : c.phase = "dive" /\ c.completed))

\* ---- getDailyStatsAsync
\* the loop that initialises one bucket per day from startDate to endDate
RECURSIVE initDays(_, _, _)
initDays(currentDate, endDate, dailyMap) ==
    IF currentDate <= endDate
    THEN initDays(currentDate + MsPerDay, endDate,
                  [d \in DOMAIN dailyMap \cup {utcDate(currentDate)} |->
                      [minutes |-> 0, cycles |-> 0]])
    ELSE dailyMap

\* variant: a day that has no bucket gets none, its amounts are dropped
addToDayOfRange(dailyMap, dateStr, minutes, cycles) ==
    [d \in DOMAIN dailyMap |->
        IF d = dateStr
        THEN [minutes |-> dailyMap[d].minutes + minutes,
              cycles |-> dailyMap[d].cycles + cycles]
        ELSE dailyMap[d]]

\* dailyMap.set(dateStr, existing || zero, plus the given amounts)
addToDay(dailyMap, dateStr, minutes, cycles) ==
    [d \in DOMAIN dailyMap \cup {dateStr} |->
        IF d = dateStr
        THEN IF d \in DOMAIN dailyMap
             THEN [minutes |-> dailyMap[d].minutes + minutes,
                   cycles |-> dailyMap[d].cycles + cycles]
             ELSE [minutes |-> minutes, cycles |-> cycles]
        ELSE dailyMap[d]]

RECURSIVE addDiveMinutes(_, _, _)
addDiveMinutes(cycles, i, dailyMap) ==
    IF i > Len(cycles) THEN dailyMap
    ELSE IF cycles[i].phase = "dive" /\ cycles[i].completed
    THEN addDiveMinutes(cycles, i + 1,
             addToDay(dailyMap, utcDate(cycles[i].startTime),
                      durationMinutes(cycles[i]), 0))
    ELSE addDiveMinutes(cycles, i + 1, dailyMap)

RECURSIVE addBreathCycles(_, _, _)
addBreathCycles(cycles, i, dailyMap) ==
    IF i > Len(cycles) THEN dailyMap
    ELSE IF cycles[i].phase = "breath" /\ cycles[i].completed
    THEN addBreathCycles(cycles, i + 1,
             addToDay(dailyMap, utcDate(cycles[i].startTime), 0, 1))
    ELSE addBreathCycles(cycles, i + 1, dailyMap)

\* the entries of the map in ascending order of their date
sortByDate(dailyMap) ==
    [k \in 1..Cardinality(DOMAIN dailyMap) |->
        LET d == CHOOSE d \in DOMAIN dailyMap :
                     Cardinality({x \in DOMAIN dailyMap : x < d}) = k - 1
        IN  [date |-> d,
             minutes |-> dailyMap[d].minutes,
             cycles |-> dailyMap[d].cycles]]

getDailyStats(startDate, endDate) ==
    LET cycles == getCycles(startDate, endDate)
        days == initDays(startDate, endDate, <<>>)
    IN  sortByDate(addBreathCycles(cycles, 1,
                       addDiveMinutes(cycles, 1, days)))

\* ---- getMusicFocusStatsAsync
artistIndex(artistMap, artist) ==
    IF \E k \in DOMAIN artistMap : artistMap[k].artist = artist
    THEN CHOOSE k \in DOMAIN artistMap : artistMap[k].artist = artist
    ELSE 0

artistOf(row) == IF row.artist # NoArtist THEN row.artist ELSE NoMusicBucket

RECURSIVE addArtists(_, _)
addArtists(data, artistMap) ==
    IF data = <<>> THEN artistMap
    ELSE LET row == Head(data)
             k == artistIndex(artistMap, artistOf(row))
             withEntry == IF k = 0
                          THEN Append(artistMap, [artist |-> artistOf(row),
                                                  cycleCount |-> 0,
                                                  ratingSum |-> 0,
                                                  ratingCount |-> 0,
                                                  totalMinutes |-> 0])
                          ELSE artistMap
             at == IF k = 0 THEN Len(withEntry) ELSE k
         IN  addArtists(Tail(data),
                 [withEntry EXCEPT
                     ![at].cycleCount = @ + 1,
                     ![at].ratingSum = @ + row.rating,
                     ![at].ratingCount = @ + (IF row.rating # 0 THEN 1 ELSE 0),
                     ![at].totalMinutes = @ + durationMinutes(row)])

\* averageRating is the quotient ratingSum / ratingCount, kept as the
\* fraction num/den; 0 when nothing was rated
getMusicFocusStats(startDate, endDate) ==
    LET data == SelectSeq(cycleRecords,
                    LAMBDA row : /\ row.phase = "dive"
                                 /\ row.completed
                                 /\ inRange(row, startDate, endDate))
        artistMap == addArtists(data, <<>>)
        sorted == sortDescending(
                      [k \in DOMAIN artistMap |->
                          <<artistMap[k].totalMinutes,
                            [artist |-> artistMap[k].artist,
                             cycleCount |-> artistMap[k].cycleCount,
                             averageRating |->
                                 IF artistMap[k].ratingCount > 0
                                 THEN [num |-> artistMap[k].ratingSum,
                                       den |-> artistMap[k].ratingCount]
                                 ELSE [num |-> 0, den |-> 1],
                             totalMinutes |-> artistMap[k].totalMinutes]>>],
                      <<>>)
    IN  [k \in DOMAIN sorted |-> sorted[k][2]]

\* ---- getBreathTagStatsAsync
\* String.split(separator): the stretches between the separators
RECURSIVE split(_, _)
split(str, separator) ==
    IF \E i \in DOMAIN str : str[i] = separator
    THEN LET i == CHOOSE i \in DOMAIN str :
                      /\ str[i] = separator
                      /\ \A j \in 1..(i - 1) : str[j] # separator
         IN  <<SubSeq(str, 1, i - 1)>>
                 \o split(SubSeq(str, i + 1, Len(str)), separator)
    ELSE <<str>>

\* String.trim(): without the blanks at either end
RECURSIVE trim(_)
trim(str) ==
    IF str = <<>> THEN str
    ELSE IF Head(str) = " " THEN trim(Tail(str))
    ELSE IF str[Len(str)] = " " THEN trim(SubSeq(str, 1, Len(str) - 1))
    ELSE str

\* variant: the tokens keep their blanks
tokensOfUntrimmed(tag) ==
    SelectSeq(split(tag, ","), LAMBDA t : t # <<>>)

\* (cycle.tag || '').split(',').map(t => t.trim()).filter(Boolean)
tokensOf(tag) ==
    LET parts == split(tag, ",")
    IN  SelectSeq([k \in DOMAIN parts |-> trim(parts[k])],
                  LAMBDA t : t # <<>>)

\* tagMap.set(tag, (tagMap.get(tag) || 0) + 1) for each token in turn
RECURSIVE countTokens(_, _)
countTokens(tags, tagMap) ==
    IF tags = <<>> THEN tagMap
    ELSE LET k == tagIndex(tagMap, Head(tags))
         IN  countTokens(Tail(tags),
                 IF k = 0
                 THEN Append(tagMap, [tag |-> Head(tags), count |-> 1])
                 ELSE [tagMap EXCEPT ![k].count = @ + 1])

RECURSIVE countBreathTags(_, _)
countBreathTags(breathCycles, tagMap) ==
    IF breathCycles = <<>> THEN tagMap
    ELSE countBreathTags(Tail(breathCycles),
             countTokens(tokensOf(Head(breathCycles).tag), tagMap))

RECURSIVE totalCount(_)
totalCount(tagMap) ==
    IF tagMap = <<>> THEN 0 ELSE Head(tagMap).count + totalCount(Tail(tagMap))

\* percentage is the quotient count / total * 100, kept as the fraction
\* num/den; the rounding of the floating-point division is not modelled
getBreathTagStats(startDate, endDate) ==
    LET cycles == getCycles(startDate, endDate)
        breathCycles == SelectSeq(cycles,
                            LAMBDA c : /\ c.phase = "breath"
                                       /\ c.completed
                                       /\ c.tag # NoTag)
        tagMap == countBreathTags(breathCycles, <<>>)
        total == totalCount(tagMap)
        sorted == sortDescending(
                      [k \in DOMAIN tagMap |->
                          <<tagMap[k].count,
                            [tag |-> tagMap[k].tag,
                             count |-> tagMap[k].count,
                             percentage |->
                                 IF total > 0
                                 THEN [num |-> tagMap[k].count * 100,
                                       den |-> total]
                                 ELSE [num |-> 0, den |-> 1]]>>],
                      <<>>)
    IN  [k \in DOMAIN sorted |-> sorted[k][2]]

\* ---- getRatingStatsAsync
RECURSIVE sumOf(_)
sumOf(ratings) ==
    IF ratings = <<>> THEN 0 ELSE Head(ratings) + sumOf(Tail(ratings))

\* the rows of completed breath phases that carry a rating, in range
ratedBreathRows(startDate, endDate) ==
    SelectSeq(cycleRecords,
        LAMBDA row : /\ row.phase = "breath"
                     /\ row.completed
                     /\ row.rating # 0
                     /\ inRange(row, startDate, endDate))

\* variant: with nothing rated the histogram still has its five entries
getRatingStatsFullHistogram(startDate, endDate) ==
    LET data == ratedBreathRows(startDate, endDate)
        ratings == [k \in DOMAIN data |-> data[k].rating]
    IN  [averageRating |-> [num |-> sumOf(ratings),
                            den |-> Max(Len(ratings), 1)],
         totalRated |-> Len(ratings),
         distribution |->
             [rating \in 1..5 |->
                 [rating |-> rating,
                  count |-> Len(SelectSeq(ratings, LAMBDA r : r = rating))]]]

getRatingStats(startDate, endDate) ==
    LET data == ratedBreathRows(startDate, endDate)
        ratings == [k \in DOMAIN data |-> data[k].rating]
        totalRated == Len(ratings)
    IN  IF totalRated = 0
        THEN [averageRating |-> [num |-> 0, den |-> 1],
              totalRated |-> 0,
              distribution |-> <<>>]
        ELSE [averageRating |-> [num |-> sumOf(ratings), den |-> totalRated],
              totalRated |-> totalRated,
              distribution |->
                  [rating \in 1..5 |->
                      [rating |-> rating,
                       count |-> Len(SelectSeq(ratings,
                                         LAMBDA r : r = rating))]]]

\* ---- getTopTracksByRatingAsync
TopTracks == 10
UnknownArtist == "Desconhecido"

\* the template string `${row.spotify_track_name}|${row.spotify_artist}`; a
\* missing artist prints as null
trackKey(row) ==
    row.track \o <<"|">>
        \o <<IF row.artist = NoArtist THEN "null" ELSE row.artist>>

keyIndex(trackMap, key) ==
    IF \E k \in DOMAIN trackMap : trackMap[k].key = key
    THEN CHOOSE k \in DOMAIN trackMap : trackMap[k].key = key
    ELSE 0

RECURSIVE addTracks(_, _)
addTracks(data, trackMap) ==
    IF data = <<>> THEN trackMap
    ELSE LET row == Head(data)
             k == keyIndex(trackMap, trackKey(row))
             withEntry == IF k = 0
                          THEN Append(trackMap,
                                   [key |-> trackKey(row),
                                    artist |-> IF row.artist = NoArtist
                                               THEN UnknownArtist
                                               ELSE row.artist,
                                    ratingSum |-> 0,
                                    count |-> 0])
                          ELSE trackMap
             at == IF k = 0 THEN Len(withEntry) ELSE k
         IN  addTracks(Tail(data),
                 [withEntry EXCEPT ![at].ratingSum = @ + row.rating,
                                   ![at].count = @ + 1])

\* Array.sort by descending avgRating (stable); avgRating is the quotient
\* ratingSum / count, kept as the fraction num/den
placeAfterHigherRated(sorted, t) ==
    LET n == Cardinality({k \in DOMAIN sorted :
                 sorted[k].avgRating.num * t.avgRating.den
                     >= t.avgRating.num * sorted[k].avgRating.den})
    IN  SubSeq(sorted, 1, n) \o <<t>> \o SubSeq(sorted, n + 1, Len(sorted))

RECURSIVE sortByAvgRating(_, _)
sortByAvgRating(tracks, sorted) ==
    IF tracks = <<>> THEN sorted
    ELSE sortByAvgRating(Tail(tracks),
                         placeAfterHigherRated(sorted, Head(tracks)))

getTopTracksByRating(startDate, endDate) ==
    LET data == SelectSeq(ratedBreathRows(startDate, endDate),
                          LAMBDA row : row.track # NoTrack)
        trackMap == addTracks(data, <<>>)
        mapped == [k \in DOMAIN trackMap |->
                      [track |-> Head(split(trackMap[k].key, "|")),
                       artist |-> trackMap[k].artist,
                       avgRating |-> [num |-> trackMap[k].ratingSum,
                                      den |-> trackMap[k].count],
                       cycleCount |-> trackMap[k].count]]
        sorted == sortByAvgRating(
                      SelectSeq(mapped, LAMBDA t : t.cycleCount >= 2), <<>>)
    IN  SubSeq(sorted, 1, Min(TopTracks, Len(sorted)))

\* ---- the dashboard page loads its statistics for the chosen period, in a
\* browser whose time zone is tz, right after the last phase ended
loadDashboard(period, tz) ==
    LET endDate == endOfDay(logClock, tz)
        startDate == startOfDay(subDays(logClock, period - 1), tz)
    IN  /\ dashboard' = [period |-> period,
                         tz |-> tz,
                         startDate |-> startDate,
                         endDate |-> endDate,
                         tagStats |-> getTagStats(startDate, endDate),
                         totalCycles |->
                             getTotalCompletedCycles(startDate, endDate),
                         totalMinutes |->
                             getTotalFocusMinutes(startDate, endDate),
                         dailyStats |-> getDailyStats(startDate, endDate),
                         ratingStats |-> getRatingStats(startDate, endDate),
                         musicStats |->
                             getMusicFocusStats(startDate, endDate),
                         topTracks |->
                             getTopTracksByRating(startDate, endDate),
                         breathStats |->
                             getBreathTagStats(startDate, endDate)]
        /\ UNCHANGED <<now, settings, unsent, store, feed, cycleRecords,
                       status, syncVars, uiVars>>

\* SpecStats: a log of phases is recorded and rated, and the dashboard reads it
NextStats ==
    \/ \E tag \in TagChoices, duration \in DurationChoices :
          /\ RecordsBelow(MaxLog)
          /\ saveCycleRecord("immersion", TRUE, tag, NoTrack, NoArtist,
                             duration)
    \/ \E artist \in ArtistChoices, duration \in DurationChoices :
          /\ RecordsBelow(MaxLog)
          /\ saveCycleRecord("dive", TRUE, NoTag,
                             IF artist = NoArtist THEN NoTrack ELSE <<"a">>,
                             artist, duration)
    \/ \E duration \in DurationChoices :
          /\ RecordsBelow(MaxLog)
          /\ saveCycleRecord("dive", FALSE, NoTag, NoTrack, NoArtist,
                             duration)
    \/ \E completed \in BOOLEAN :
          /\ RecordsBelow(MaxLog)
          /\ saveCycleRecord("breath", completed, NoTag, NoTrack, NoArtist,
                             5 * MsPerMinute)
    \/ \E i \in 1..MaxLog, r \in RatingChoices : rateCycle(i, r)
    \/ \E period \in 1..MaxPeriod, tz \in TimeZoneChoices :
          loadDashboard(period, tz)

SpecStats == Init /\ [][NextStats]_vars

\* SpecRated: a log of breath phases with their tags, tracks and ratings,
\* among records of other kinds, and the dashboard that reads it
BreathChoices ==
    {[tag |-> NoTag, track |-> <<"a">>, artist |-> "X"],
     [tag |-> <<"c", ",", " ", "t">>, track |-> <<"b">>, artist |-> "X"],
     [tag |-> <<"t", " ", ",">>, track |-> <<"a", "|", "b">>, artist |-> "X"],
     [tag |-> <<" ">>, track |-> NoTrack, artist |-> NoArtist]}

NextRated ==
    \/ \E b \in BreathChoices :
          /\ RecordsBelow(MaxLog)
          /\ saveCycleRecord("breath", TRUE, b.tag, b.track, b.artist,
                             5 * MsPerMinute)
    \/ /\ RecordsBelow(MaxLog)
       /\ saveCycleRecord("breath", FALSE, <<"c">>, <<"a">>, "X",
                          5 * MsPerMinute)
    \/ /\ RecordsBelow(MaxLog)
       /\ saveCycleRecord("dive", TRUE, <<"c">>, <<"a">>, "X",
                          5 * MsPerMinute)
    \/ \E i \in 1..MaxLog, r \in RatingChoices : rateCycle(i, r)
    \/ \E period \in 1..MaxPeriod : loadDashboard(period, 0)

SpecRated == Init /\ [][NextRated]_vars

\* ------------------------------------------------------------------ claims
\* the cyclic order of the phases, written out
CyclicSuccessor(phase) ==
    CASE phase = "immersion" -> "dive"
      [] phase = "dive" -> "breath"
      [] phase = "breath" -> "immersion"

\* the steps that end a phase
Terminates(c) ==
    \/ handleSkip(c, TRUE)
    \/ handleCompleteCycle(c, TRUE)
    \/ \E includeExtraTime \in BOOLEAN :
          handleOverfocusDecision(c, includeExtraTime, TRUE)

\* C1: whenever a client executes startPhase(p), the current phase of its
\* local session is the cyclic predecessor of p, also when the writes of
\* another client are applied in between.
C1_CyclicOrderUnderRemoteApply ==
    [][\A c \in Clients :
          handleContinue(c) =>
              pendingPhaseRef[c] = CyclicSuccessor(currentPhase(c))]_vars

\* C2: in one client without remote events, the phase remembered when a phase
\* ends is the cyclic successor of the phase that ended, and continue starts
\* exactly that phase.
C2_AdvanceFollowsCycle ==
    [][\A c \in Clients :
          /\ Terminates(c) =>
                 pendingPhaseRef'[c] = CyclicSuccessor(currentPhase(c))
          /\ handleContinue(c) =>
                 /\ pendingPhaseRef[c] = CyclicSuccessor(currentPhase(c))
                 /\ currentPhase(c)' = CyclicSuccessor(currentPhase(c))]_vars

\* C2 witness: the cycle has wrapped, immersion was started after breath
C2_Witness ==
    /\ currentPhase("c1") = "immersion"
    /\ cycleCount("c1") = 1
    /\ isRunning("c1")
    /\ Len(cycleRecords) = 2
    /\ cycleRecords[2].phase = "breath"

\* C3: startPhase(immersion) raises cycle_count by exactly 1, startPhase of
\* dive or breath leaves it, and tick, play/pause, skip, complete now,
\* resolve overtime and retime never change it.
C3_CycleCountPerImmersion ==
    [][\A c \in Clients :
          /\ handleContinue(c) =>
                 cycleCount(c)' = cycleCount(c) +
                     (IF pendingPhaseRef[c] = "immersion" THEN 1 ELSE 0)
          /\ ( \/ Tick(c)
               \/ handlePlayPause(c)
               \/ Terminates(c)
               \/ \E n \in {0, MaxCountdown} : handleTimeChange(c, n) )
                 => cycleCount(c)' = cycleCount(c)]_vars

\* C3 witness: immersion has been started once and dive after it
C3_Witness ==
    /\ cycleCount("c1") = 1
    /\ currentPhase("c1") = "immersion"
    /\ isRunning("c1")
    /\ startTimeRef["c1"] # NullTime

\* C4: resolving overtime always appends exactly one record, completed, for
\* the current phase, and leaves the session not running and not in overtime.
C4_ResolveOvertimeEmitsOne ==
    [][\A c \in Clients :
          (\E includeExtraTime \in BOOLEAN :
              handleOverfocusDecision(c, includeExtraTime, TRUE)) =>
              /\ Len(cycleRecords') = Len(cycleRecords) + 1
              /\ cycleRecords'[Len(cycleRecords')].phase = currentPhase(c)
              /\ cycleRecords'[Len(cycleRecords')].completed
              /\ ~isRunning(c)'
              /\ ~isOvertime(c)']_vars

\* C5: a skip always appends exactly one record, not completed, for the
\* current phase, and leaves the session not running and not in overtime.
C5_SkipEmitsOne ==
    [][\A c \in Clients :
          handleSkip(c, TRUE) =>
              /\ Len(cycleRecords') = Len(cycleRecords) + 1
              /\ cycleRecords'[Len(cycleRecords')].phase = currentPhase(c)
              /\ ~cycleRecords'[Len(cycleRecords')].completed
              /\ ~isRunning(c)'
              /\ ~isOvertime(c)']_vars

\* C6: between one startPhase and the next on a client, never more than one
\* record is written for the run.
C6_OneRecordPerRun == \A c \in Clients : run[c].records <= 1

\* C7: time_left is never negative, in any client's session and in the store.
C7_TimeLeftNonNegative ==
    /\ \A c \in Clients : session[c] # NoSession => session[c].time_left >= 0
    /\ store # NoSession => store.time_left >= 0

\* C7 witness: a client has loaded a running row whose remaining time had
\* run out while the page was closed
C7_Witness ==
    /\ status["c1"] = "ready"
    /\ isRunning("c1") /\ ~isOvertime("c1")
    /\ timeLeft("c1") = 0
    /\ store.time_left > 0

\* C8: within one phase run the countdown enters overtime at most once.
C8_OvertimeOncePerRun == \A c \in Clients : run[c].overtimes <= 1

\* C9: a tick of a running session outside overtime with time_left <= 1
\* enters overtime with time_left 0, still running, extra time 0; with
\* time_left > 1 it takes exactly 1 off time_left and changes no other field
\* (but the write stamp).
C9_TickSemantics ==
    [][\A c \in Clients :
          (Tick(c) /\ ~isOvertime(c)) =>
              IF timeLeft(c) <= 1
              THEN /\ session'[c].time_left = 0
                   /\ session'[c].is_running
                   /\ session'[c].is_overtime
                   /\ session'[c].extra_time_seconds = 0
              ELSE session'[c] = [session[c] EXCEPT
                                     !.time_left = @ - 1,
                                     !.updated_at = now]]_vars

\* C10: tick, skip, complete now and resolve overtime leave current_phase,
\* total_time and cycle_count as they are, and a client's current_phase only
\* changes when continue starts a phase (or a change event is applied).
C10_NoSilentAdvance ==
    [][\A c \in Clients :
          /\ (Tick(c) \/ Terminates(c)) =>
                 /\ session'[c].current_phase = session[c].current_phase
                 /\ session'[c].total_time = session[c].total_time
                 /\ session'[c].cycle_count = session[c].cycle_count
          /\ ( /\ status[c] = "ready" /\ status'[c] = "ready"
               /\ currentPhase(c)' # currentPhase(c) )
                 => (handleContinue(c) \/ Deliver(c))]_vars

\* C10 witness: the countdown has ended in overtime, in the phase it ran in
C10_Witness ==
    /\ isOvertime("c1") /\ isRunning("c1")
    /\ showOverfocusPopup["c1"]
    /\ currentPhase("c1") = "dive"
    /\ timeLeft("c1") = 1

\* C11: in overtime every tick adds exactly 1 to extra_time_seconds and
\* leaves time_left, current_phase and is_overtime as they are, and skip,
\* play/pause, retime and the prompt's wait do not clear is_overtime: only the
\* answer to the overtime prompt does.
C11_OvertimeUntilResolved ==
    [][\A c \in Clients :
          (status[c] = "ready" /\ isOvertime(c)) =>
              /\ Tick(c) =>
                     /\ extraTime(c)' = extraTime(c) + 1
                     /\ timeLeft(c)' = timeLeft(c)
                     /\ currentPhase(c)' = currentPhase(c)
                     /\ isOvertime(c)'
              /\ ( \/ handleSkip(c, TRUE)
                   \/ handlePlayPause(c)
                   \/ handleWait(c)
                   \/ \E n \in {0, MaxCountdown} : handleTimeChange(c, n) )
                     => isOvertime(c)']_vars

\* C12: complete now is taken only while running and not in overtime; it
\* leaves the session not running and not in overtime and appends exactly
\* one record, completed, for the current phase, also when the running
\* session was loaded from the store.
C12_CompleteNowEmitsOne ==
    [][\A c \in Clients :
          handleCompleteCycle(c, TRUE) =>
              /\ isRunning(c) /\ ~isOvertime(c)
              /\ ~isRunning(c)' /\ ~isOvertime(c)'
              /\ Len(cycleRecords') = Len(cycleRecords) + 1
              /\ cycleRecords'[Len(cycleRecords')].phase = currentPhase(c)
              /\ cycleRecords'[Len(cycleRecords')].completed]_vars

\* the configured duration of a phase, in seconds
durationFor(phase) ==
    CASE phase = "immersion" -> settings.immersionMinutes * 60
      [] phase = "dive" -> settings.diveMinutes * 60
      [] phase = "breath" -> settings.breathMinutes * 60

\* C13: starting a phase sets total_time to the configured duration of that
\* phase, time_left to the same value, is_running, not is_overtime,
\* extra_time_seconds 0, started_at to the current time and current_phase to
\* the phase, whatever the session was before.
C13_StartSetsSession ==
    [][\A c \in Clients :
          handleContinue(c) =>
              /\ session'[c].total_time = durationFor(pendingPhaseRef[c])
              /\ session'[c].time_left = session'[c].total_time
              /\ session'[c].is_running
              /\ ~session'[c].is_overtime
              /\ session'[c].extra_time_seconds = 0
              /\ session'[c].started_at = now
              /\ session'[c].current_phase = pendingPhaseRef[c]]_vars

\* C13 witness: breath has just been started, later than the page was opened
C13_Witness ==
    /\ now > 0
    /\ currentPhase("c1") = "breath"
    /\ isRunning("c1") /\ ~isOvertime("c1")
    /\ session["c1"].started_at = now
    /\ startTimeRef["c1"] = now
    /\ timeLeft("c1") = 5 * 60
    /\ session["c1"].total_time = 5 * 60

\* C14: play/pause flips is_running, stamps started_at only when none is set
\* yet (a resume after a pause leaves started_at as it is), and leaves
\* current_phase, time_left, total_time, cycle_count, is_overtime and
\* extra_time_seconds unchanged.
C14_PlayPauseStampsOnce ==
    [][\A c \in Clients :
          handlePlayPause(c) =>
              /\ session'[c].is_running = ~session[c].is_running
              /\ session[c].started_at # NullTime =>
                     session'[c].started_at = session[c].started_at
              /\ session'[c].current_phase = session[c].current_phase
              /\ session'[c].time_left = session[c].time_left
              /\ session'[c].total_time = session[c].total_time
              /\ session'[c].cycle_count = session[c].cycle_count
              /\ session'[c].is_overtime = session[c].is_overtime
              /\ session'[c].extra_time_seconds = session[c].extra_time_seconds]_vars

\* C15: the time editor's value is applied only while the session is paused
\* and not in overtime and only if it is positive; when applied, time_left
\* and total_time both become the new value and no other field changes (but
\* the write stamp), so total_time stays positive.
C15_RetimeOnlyPaused ==
    [][/\ \A c \in Clients : \A n \in {0, MaxCountdown} :
          handleTimeChange(c, n) =>
              /\ ~isRunning(c) /\ ~isOvertime(c)
              /\ n > 0
              /\ session'[c] = [session[c] EXCEPT !.time_left = n,
                                                  !.total_time = n,
                                                  !.updated_at = now]
              /\ session'[c].total_time > 0
       /\ \A c \in Clients :
             ( /\ status[c] = "ready" /\ status'[c] = "ready"
               /\ isRunning(c) \/ isOvertime(c)
               /\ session'[c].total_time # session[c].total_time )
                 => (handleContinue(c) \/ Deliver(c))]_vars

\* C15 witness: a paused session carries an edited time
C15_Witness ==
    /\ status["c1"] = "ready"
    /\ ~isRunning("c1") /\ ~isOvertime("c1")
    /\ timeLeft("c1") = MaxCountdown
    /\ session["c1"].total_time = MaxCountdown
    /\ updateTimeoutRef["c1"] # NoTimeout
    /\ updateTimeoutRef["c1"].updates = [time_left |-> MaxCountdown,
                                         total_time |-> MaxCountdown]

\* C16: a change event whose updated_at is no later than the client's last
\* local write plus the 500 ms buffer (the echo of the client's own debounced
\* write) is not applied, so an event never replaces a session that was
\* written locally at or after the event's time.
C16_EchoSuppressed ==
    [][\A c \in Clients :
          Deliver(c) =>
              /\ Head(feed[c]).updated_at <= lastUpdateRef[c] + 500 =>
                     session'[c] = session[c]
              /\ session'[c] # session[c] =>
                     lastUpdateRef[c] < Head(feed[c]).updated_at]_vars

\* C16 witness: the echo of a write made after a later local write of the
\* same client has been delivered and the local session still differs from
\* the stored row
C16_Witness ==
    /\ status["c1"] = "ready"
    /\ feed["c1"] = <<>>
    /\ lastUpdateRef["c1"] > 0
    /\ store.updated_at >= lastUpdateRef["c1"] + DebounceMs
    /\ store.updated_at <= lastUpdateRef["c1"] + BufferMs
    /\ session["c1"].updated_at = lastUpdateRef["c1"]
    /\ session["c1"].is_running # store.is_running

\* C17: a change event is applied exactly if its updated_at is greater than
\* the client's last local write plus 500 ms; applied, it replaces the whole
\* local session; not applied, the local session stays as it is.
C17_RemoteApplyIff ==
    [][\A c \in Clients :
          Deliver(c) =>
              IF Head(feed[c]).updated_at > lastUpdateRef[c] + 500
              THEN session'[c] = Head(feed[c])
              ELSE session'[c] = session[c]]_vars

\* C17 witness: c1 ended immersion itself and then took over the dive phase
\* from the stored row written by the other client
C17_Witness ==
    /\ pendingPhaseRef["c1"] = "dive"
    /\ currentPhase("c1") = "dive"
    /\ session["c1"] = store
    /\ feed["c1"] = <<>>
    /\ store.updated_at > lastUpdateRef["c1"] + BufferMs

\* C18: handing the same change event to the callback twice in a row leaves
\* the session as handing it over once (the last-write marker is not
\* touched by the callback).
C18_RemoteApplyIdempotent ==
    \A c \in Clients :
        feed[c] # <<>> =>
            LET newData == Head(feed[c])
                once == onChange(session[c], c, newData)
            IN  onChange(once, c, newData) = once

\* C18 witness: an event that will be applied and changes the session waits
\* for delivery
C18_Witness ==
    /\ feed["c1"] # <<>>
    /\ RemoteApplies("c1", Head(feed["c1"]))
    /\ Head(feed["c1"]) # session["c1"]
    /\ Head(feed["c1"]).current_phase # currentPhase("c1")

\* the fields of a session row but its write stamp
Fields(row) ==
    [current_phase |-> row.current_phase,
     time_left |-> row.time_left,
     total_time |-> row.total_time,
     is_running |-> row.is_running,
     cycle_count |-> row.cycle_count,
     started_at |-> row.started_at,
     is_overtime |-> row.is_overtime,
     extra_time_seconds |-> row.extra_time_seconds]

\* C19: a client's pending store write is always the one scheduled by its
\* latest local mutation, 300 ms after it (earlier ones are cancelled); the
\* store is written only by such a write coming due, not before 300 ms have
\* passed since the client's latest mutation, and the write leaves nothing
\* pending: a burst of mutations gives one store write.
C19_DebounceCoalesces ==
    [][/\ \A c \in Clients :
             /\ updateTimeoutRef'[c] # NoTimeout =>
                    updateTimeoutRef'[c].due = lastUpdateRef'[c] + 300
             /\ Flush(c, TRUE) =>
                    /\ updateTimeoutRef[c] # NoTimeout
                    /\ now >= lastUpdateRef[c] + 300
                    /\ updateTimeoutRef'[c] = NoTimeout
       /\ (store # NoSession /\ store' # store) =>
             \E c \in Clients : Flush(c, TRUE)]_vars

\* C19 witness: two mutations at the same instant (time edit, then play) were
\* followed by one store write, which carried the second mutation only
C19_Witness ==
    /\ status["c1"] = "ready"
    /\ updateTimeoutRef["c1"] = NoTimeout
    /\ lastUpdateRef["c1"] = 0
    /\ timeLeft("c1") = MaxCountdown
    /\ isRunning("c1")
    /\ store.is_running
    /\ store.updated_at >= DebounceMs
    /\ store.time_left # MaxCountdown

\* C20: when a client's debounced write has reached the store, every field
\* of the stored row equals the field of that client's local session.
C20_StoreConverges ==
    [][\A c \in Clients :
          Flush(c, TRUE) => Fields(store') = Fields(session[c])]_vars

\* C21: a failed store update leaves the client's local session and its
\* last-write marker as they are, and as long as no later mutation follows,
\* the local session keeps every value the failed write carried.
C21_FailedWriteKeepsLocal ==
    [][\A c \in Clients :
          /\ Flush(c, FALSE) =>
                 /\ session'[c] = session[c]
                 /\ lastUpdateRef'[c] = lastUpdateRef[c]
          /\ ( /\ status'[c] = "ready"
               /\ unsent'[c] # NoUpdates
               /\ updateTimeoutRef'[c] = NoTimeout )
                 => \A f \in DOMAIN unsent'[c] :
                        session'[c][f] = unsent'[c][f]]_vars

\* C21 witness: the write that started the timer was lost and the local
\* session runs on
C21_Witness ==
    /\ status["c1"] = "ready"
    /\ unsent["c1"] # NoUpdates
    /\ "is_running" \in DOMAIN unsent["c1"]
    /\ updateTimeoutRef["c1"] = NoTimeout
    /\ isRunning("c1")
    /\ ~store.is_running

\* C22: when a client's store update has failed and a later update of the
\* same client succeeds, the stored row has, in every field the failed
\* update carried, the value of the client's local session.
C22_FailedWriteRetried ==
    [][\A c \in Clients :
          (Flush(c, TRUE) /\ unsent[c] # NoUpdates) =>
              \A f \in DOMAIN unsent[c] : store'[f] = session[c][f]]_vars

C24_FirstUseGivesEverySession ==
    /\ [][(store = NoSession /\ store' # NoSession) =>
             /\ store'.current_phase = "immersion"
             /\ store'.time_left = settings.immersionMinutes * SecondsPerMinute
             /\ ~store'.is_running
             /\ store'.cycle_count = 0]_vars
    /\ [](\A c \in Clients :
             (status[c] = "ready" /\ feed[c] = <<>>) => session[c] # NoSession)

\* C25: the identifier remembered for rating is set only by a step that ends
\* a breath phase as completed and whose record write returned that id; a
\* rating submission or skip clears it; and a stored record changes only in
\* its rating, only if it is the breath record of the remembered id, and only
\* while it is unrated.
C25_RatingOnlyBreathOnce ==
    [][\A c \in Solo :
          /\ (lastBreathCycleId'[c] # lastBreathCycleId[c]
                 /\ lastBreathCycleId'[c] # NoId) =>
                 /\ currentPhase(c) = "breath"
                 /\ Len(cycleRecords') = Len(cycleRecords) + 1
                 /\ cycleRecords'[Len(cycleRecords')].id = lastBreathCycleId'[c]
                 /\ cycleRecords'[Len(cycleRecords')].phase = "breath"
                 /\ cycleRecords'[Len(cycleRecords')].completed
          /\ ((\E r \in RatingChoices, ok \in BOOLEAN :
                   handleRatingSubmit(c, r, ok)) \/ handleRatingSkip(c))
                 => lastBreathCycleId'[c] = NoId
          /\ Len(cycleRecords') >= Len(cycleRecords)
          /\ \A i \in 1..Len(cycleRecords) :
                 cycleRecords'[i] # cycleRecords[i] =>
                     /\ cycleRecords[i] =
                            [cycleRecords'[i] EXCEPT !.rating = 0]
                     /\ cycleRecords[i].phase = "breath"
                     /\ cycleRecords[i].id = lastBreathCycleId[c]]_vars

\* a breath record carries a rating and the remembered id is cleared, with
\* another record stored that was left alone
C25_Witness ==
    /\ Len(cycleRecords) = 2
    /\ \E i \in 1..2 : /\ cycleRecords[i].rating = 5
                          /\ cycleRecords[i].phase = "breath"
                          /\ cycleRecords[3 - i].rating = 0
    /\ lastBreathCycleId["c1"] = NoId
    /\ ~showRatingPopup["c1"]

\* the steps that end a phase while the record write fails
TerminatesUnrecorded(c) ==
    \/ handleSkip(c, FALSE)
    \/ handleCompleteCycle(c, FALSE)
    \/ \E includeExtraTime \in BOOLEAN :
          handleOverfocusDecision(c, includeExtraTime, FALSE)

\* C26: when the record write of skip, complete-now or the overtime decision
\* fails, the session still ends not running and not in overtime, the
\* pending phase is the cyclic successor, the next-phase prompt is shown and
\* no rating prompt is opened; no record is stored.
C26_FailedRecordKeepsTransition ==
    [][\A c \in Solo :
          (TerminatesUnrecorded(c) /\ startTimeRef[c] # NullTime) =>
              /\ ~session'[c].is_running
              /\ ~session'[c].is_overtime
              /\ pendingPhaseRef'[c] = CyclicSuccessor(currentPhase(c))
              /\ showPopup'[c]
              /\ showRatingPopup'[c] = showRatingPopup[c]
              /\ lastBreathCycleId'[c] = lastBreathCycleId[c]
              /\ cycleRecords' = cycleRecords]_vars

\* a breath phase was completed, its record write failed, and the client
\* stands at the next-phase prompt without a rating prompt
C26_Witness ==
    /\ status["c1"] = "ready"
    /\ currentPhase("c1") = "breath"
    /\ run["c1"].records = 1
    /\ cycleRecords = <<>>
    /\ ~isRunning("c1")
    /\ pendingPhaseRef["c1"] = "immersion"
    /\ showPopup["c1"]
    /\ ~showRatingPopup["c1"]

\* the rows the dashboard's range selects, oldest first
cyclesInRange == getCycles(dashboard.startDate, dashboard.endDate)

\* the tag a dive at position i of the log is attributed to: that of the
\* last immersion record before it that carries a tag
AttributedTag(cycles, i) ==
    LET tagged == {j \in 1..(i - 1) :
                      cycles[j].phase = "immersion" /\ cycles[j].tag # NoTag}
    IN  IF tagged = {} THEN UntaggedBucket
        ELSE cycles[CHOOSE j \in tagged : \A x \in tagged : x <= j].tag

\* the whole minutes of the records at the positions S of a log
RECURSIVE MinutesOf(_, _)
MinutesOf(cycles, S) ==
    IF S = {} THEN 0
    ELSE LET i == CHOOSE i \in S : TRUE
         IN  durationMinutes(cycles[i]) + MinutesOf(cycles, S \ {i})

\* C27: in the tag statistics every completed dive record of the log adds
\* its whole minutes to the tag of the nearest preceding immersion record
\* that carries a tag, or to the untagged bucket when there is none; nothing
\* else adds minutes (not a skipped dive, not an immersion's own duration).
C27_TagAttribution ==
    dashboard # NoDashboard =>
        LET cycles == cyclesInRange
            stats == dashboard.tagStats
            dives == {i \in DOMAIN cycles :
                         cycles[i].phase = "dive" /\ cycles[i].completed}
        IN  /\ \A i \in dives :
                   \E k \in DOMAIN stats :
                       stats[k].tag = AttributedTag(cycles, i)
            /\ \A k, l \in DOMAIN stats :
                   stats[k].tag = stats[l].tag => k = l
            /\ \A k \in DOMAIN stats :
                   stats[k].totalTimeMinutes =
                       MinutesOf(cycles,
                           {i \in dives :
                               AttributedTag(cycles, i) = stats[k].tag})

\* immersion A, immersion B, then a completed dive of nine and a half
\* minutes: B has 10 minutes and A none
C27_Witness ==
    /\ dashboard # NoDashboard
    /\ Len(cyclesInRange) = 3
    /\ cyclesInRange[1].tag = <<"A">>
    /\ cyclesInRange[2].tag = <<"B">>
    /\ cyclesInRange[3].phase = "dive"
    /\ dashboard.tagStats =
           <<[tag |-> <<"B">>, cycleCount |-> 1, totalTimeMinutes |-> 10],
             [tag |-> <<"A">>, cycleCount |-> 1, totalTimeMinutes |-> 0]>>

\* the breath records of the cycle of the dive at position i of the table:
\* the next breath record with no immersion record in between
BreathOfCycle(i) ==
    {j \in DOMAIN cycleRecords :
        /\ j > i
        /\ cycleRecords[j].phase = "breath"
        /\ \A x \in (i + 1)..(j - 1) : cycleRecords[x].phase = "dive"}

RECURSIVE RatingSumOf(_)
RatingSumOf(S) ==
    IF S = {} THEN 0
    ELSE LET j == CHOOSE j \in S : TRUE
         IN  cycleRecords[j].rating + RatingSumOf(S \ {j})

\* C28: in the music statistics every completed dive record in range is in
\* the group of its artist, or of the no-music bucket when it has no track,
\* and the mean rating of a group is the mean of the ratings of the rated
\* breath records of the cycles of its dive records.
C28_MusicMeanRating ==
    dashboard # NoDashboard =>
        LET stats == dashboard.musicStats
            dives == {i \in DOMAIN cycleRecords :
                         /\ cycleRecords[i].phase = "dive"
                         /\ cycleRecords[i].completed
                         /\ inRange(cycleRecords[i], dashboard.startDate,
                                    dashboard.endDate)}
            group(i) == IF cycleRecords[i].artist = NoArtist
                        THEN NoMusicBucket ELSE cycleRecords[i].artist
        IN  /\ \A i \in dives : \E k \in DOMAIN stats : stats[k].artist = group(i)
            /\ \A k \in DOMAIN stats :
                   LET rated == {j \in DOMAIN cycleRecords :
                                    /\ cycleRecords[j].rating # 0
                                    /\ \E i \in dives :
                                          /\ group(i) = stats[k].artist
                                          /\ j \in BreathOfCycle(i)}
                   IN  stats[k].averageRating.num * Cardinality(rated)
                           = RatingSumOf(rated) * stats[k].averageRating.den

\* the calendar day of an instant in the browser's zone, as a day number
LocalDate(t, tz) == (t - tz) \div MsPerDay

\* C29: the daily series of a range of N days has N buckets, the days of the
\* range in ascending order; a bucket's minutes are the whole minutes of the
\* dive records of that day and its cycles the number of completed breath
\* records of that day.
C29_DailySeries ==
    dashboard # NoDashboard =>
        LET daily == dashboard.dailyStats
            tz == dashboard.tz
            cycles == cyclesInRange
            firstDay == LocalDate(dashboard.startDate, tz)
            on(k) == {i \in DOMAIN cycles :
                         LocalDate(cycles[i].startTime, tz) = firstDay + k - 1}
        IN  /\ Len(daily) = dashboard.period
            /\ \A k \in DOMAIN daily :
                   /\ daily[k].date = firstDay + k - 1
                   /\ daily[k].minutes =
                          MinutesOf(cycles,
                              {i \in on(k) : cycles[i].phase = "dive"})
                   /\ daily[k].cycles =
                          Cardinality({i \in on(k) :
                              cycles[i].phase = "breath" /\ cycles[i].completed})

\* the claim of C30 as the specification words it: every dive record in
\* range counts towards the focus minutes
C30_TotalsEveryDive ==
    dashboard # NoDashboard =>
        LET cycles == cyclesInRange
        IN  /\ dashboard.totalCycles =
                   Cardinality({i \in DOMAIN cycles :
                       cycles[i].phase = "breath" /\ cycles[i].completed})
            /\ dashboard.totalMinutes =
                   MinutesOf(cycles,
                       {i \in DOMAIN cycles : cycles[i].phase = "dive"})

\* C30: total completed cycles is the number of completed breath records in
\* range, and total focus minutes is the sum of the whole minutes of the
\* completed dive records in range.
C30_Totals ==
    dashboard # NoDashboard =>
        LET cycles == cyclesInRange
        IN  /\ dashboard.totalCycles =
                   Cardinality({i \in DOMAIN cycles :
                       cycles[i].phase = "breath" /\ cycles[i].completed})
            /\ dashboard.totalMinutes =
                   MinutesOf(cycles,
                       {i \in DOMAIN cycles :
                           cycles[i].phase = "dive" /\ cycles[i].completed})

\* a completed dive of nine and a half minutes, a skipped dive and a
\* completed breath are in range: 10 minutes and one cycle
C30_Witness ==
    /\ dashboard # NoDashboard
    /\ Len(cyclesInRange) = 3
    /\ \E i \in 1..3 : /\ cyclesInRange[i].phase = "dive"
                       /\ ~cyclesInRange[i].completed
    /\ dashboard.totalMinutes = 10
    /\ dashboard.totalCycles = 1

\* the stretches <<a, b>> of a string between two commas (or an end)
Pieces(str) ==
    {p \in (1..(Len(str) + 1)) \X (0..Len(str)) :
        /\ p[1] <= p[2] + 1
        /\ \A i \in p[1]..p[2] : str[i] # ","
        /\ p[1] = 1 \/ str[p[1] - 1] = ","
        /\ p[2] = Len(str) \/ str[p[2] + 1] = ","}

\* a stretch without the blanks at its ends
Trimmed(str, p) ==
    LET inked == {i \in p[1]..p[2] : str[i] # " "}
    IN  IF inked = {} THEN <<>>
        ELSE SubSeq(str,
                 CHOOSE i \in inked : \A j \in inked : i <= j,
                 CHOOSE i \in inked : \A j \in inked : j <= i)

\* the occurrences of tokens in the completed breath records in range, as
\* pairs of a record and a stretch of its tag
TokenOccurrences ==
    {o \in UNION {{<<i, p>> : p \in Pieces(cyclesInRange[i].tag)} :
                    i \in {i \in DOMAIN cyclesInRange :
                              /\ cyclesInRange[i].phase = "breath"
                              /\ cyclesInRange[i].completed}} :
        Trimmed(cyclesInRange[o[1]].tag, o[2]) # <<>>}

OccurrencesOf(token) ==
    {o \in TokenOccurrences : Trimmed(cyclesInRange[o[1]].tag, o[2]) = token}

\* the sum of a sequence of fractions
RECURSIVE SumOfFractions(_)
SumOfFractions(fractions) ==
    IF fractions = <<>> THEN [num |-> 0, den |-> 1]
    ELSE LET rest == SumOfFractions(Tail(fractions))
             first == Head(fractions)
         IN  [num |-> first.num * rest.den + rest.num * first.den,
              den |-> first.den * rest.den]

\* C31: the breath tag statistics report each distinct token of the tags of
\* the completed breath records in range (split on commas, trimmed, empty
\* ones dropped) once, with the number of its occurrences and that number
\* over the number of all occurrences times 100; the percentages of a
\* non-empty result add up to 100.
C31_BreathTagTokens ==
    dashboard # NoDashboard =>
        LET stats == dashboard.breathStats
        IN  /\ \A o \in TokenOccurrences :
                   \E k \in DOMAIN stats :
                       stats[k].tag = Trimmed(cyclesInRange[o[1]].tag, o[2])
            /\ \A k, l \in DOMAIN stats : stats[k].tag = stats[l].tag => k = l
            /\ \A k \in DOMAIN stats :
                   /\ stats[k].count = Cardinality(OccurrencesOf(stats[k].tag))
                   /\ stats[k].count > 0
                   /\ stats[k].percentage.num * Cardinality(TokenOccurrences)
                          = stats[k].count * 100 * stats[k].percentage.den
            /\ stats # <<>> =>
                   LET total == SumOfFractions(
                                    [k \in DOMAIN stats |-> stats[k].percentage])
                   IN  total.num = 100 * total.den

\* records tagged "c, t" and "t ," give t twice and c once
C31_Witness ==
    /\ dashboard # NoDashboard
    /\ dashboard.breathStats =
           <<[tag |-> <<"t">>, count |-> 2,
              percentage |-> [num |-> 200, den |-> 3]],
             [tag |-> <<"c">>, count |-> 1,
              percentage |-> [num |-> 100, den |-> 3]]>>

\* the rated records in range that captured a track, and their groups by
\* track and artist
RatedWithTrack ==
    {i \in DOMAIN cycleRecords :
        /\ cycleRecords[i].rating # 0
        /\ cycleRecords[i].track # NoTrack
        /\ inRange(cycleRecords[i], dashboard.startDate, dashboard.endDate)}

TrackGroup(track, artist) ==
    {i \in RatedWithTrack :
        cycleRecords[i].track = track /\ cycleRecords[i].artist = artist}

GroupsOfTwo ==
    {g \in {<<cycleRecords[i].track, cycleRecords[i].artist>> :
               i \in RatedWithTrack} :
        Cardinality(TrackGroup(g[1], g[2])) >= 2}

\* C32: the top-rated tracks are the groups by (track, artist) of the rated
\* records with a track that have at least 2 occurrences, each once with its
\* number of occurrences and its mean rating, in descending order of the
\* mean, the first TopTracks of them; a group of one occurrence is left out.
C32_TopTracks ==
    dashboard # NoDashboard =>
        LET top == dashboard.topTracks
            meanAtLeast(k, sum, count) ==
                top[k].avgRating.num * count >= sum * top[k].avgRating.den
        IN  /\ Len(top) = Min(TopTracks, Cardinality(GroupsOfTwo))
            /\ \A k \in DOMAIN top :
                   LET group == TrackGroup(top[k].track, top[k].artist)
                   IN  /\ <<top[k].track, top[k].artist>> \in GroupsOfTwo
                       /\ top[k].cycleCount = Cardinality(group)
                       /\ top[k].avgRating.num * Cardinality(group)
                              = RatingSumOf(group) * top[k].avgRating.den
            /\ \A k, l \in DOMAIN top :
                   (top[k].track = top[l].track
                       /\ top[k].artist = top[l].artist) => k = l
            /\ \A k, l \in DOMAIN top :
                   k < l => meanAtLeast(k, top[l].avgRating.num,
                                           top[l].avgRating.den)
            /\ \A g \in GroupsOfTwo :
                   (\A k \in DOMAIN top :
                        <<top[k].track, top[k].artist>> # g)
                       => \A k \in DOMAIN top :
                              meanAtLeast(k,
                                  RatingSumOf(TrackGroup(g[1], g[2])),
                                  Cardinality(TrackGroup(g[1], g[2])))

\* the completed breath records in range that carry a rating
RatedBreaths ==
    {i \in DOMAIN cycleRecords :
        /\ cycleRecords[i].phase = "breath"
        /\ cycleRecords[i].completed
        /\ cycleRecords[i].rating # 0
        /\ inRange(cycleRecords[i], dashboard.startDate, dashboard.endDate)}

\* totalRated and averageRating are the number and the mean of the rated
\* completed breath records in range
RatedCountAndMean ==
    /\ dashboard.ratingStats.totalRated = Cardinality(RatedBreaths)
    /\ dashboard.ratingStats.averageRating.num * Cardinality(RatedBreaths)
           = RatingSumOf(RatedBreaths) * dashboard.ratingStats.averageRating.den
    /\ RatedBreaths = {} => dashboard.ratingStats.averageRating.num = 0

\* the histogram has the entries 1..5, each with the number of the rated
\* records of that rating
FullHistogram ==
    LET distribution == dashboard.ratingStats.distribution
    IN  /\ DOMAIN distribution = 1..5
        /\ \A r \in 1..5 :
               /\ distribution[r].rating = r
               /\ distribution[r].count =
                      Cardinality({i \in RatedBreaths :
                                      cycleRecords[i].rating = r})

\* the claim of C33 as the specification words it: the histogram has its
\* five entries whatever the records are
C33_RatingStatsAlwaysFive ==
    dashboard # NoDashboard => (RatedCountAndMean /\ FullHistogram)

\* C33: the rating statistics count and average the completed breath records
\* in range that carry a rating; when there is at least one, the histogram
\* has one entry for each rating 1..5 with the number of records of that
\* rating, and when there is none the histogram is empty.
C33_RatingStats ==
    dashboard # NoDashboard =>
        /\ RatedCountAndMean
        /\ IF RatedBreaths = {}
           THEN dashboard.ratingStats.distribution = <<>>
           ELSE FullHistogram

\* two breath records rated 1 and 5 next to a record that does not count
C33_Witness ==
    /\ dashboard # NoDashboard
    /\ Len(cycleRecords) = 3
    /\ \E i \in 1..3 : cycleRecords[i].phase = "dive" \/ ~cycleRecords[i].completed
    /\ dashboard.ratingStats.totalRated = 2
    /\ dashboard.ratingStats.averageRating = [num |-> 6, den |-> 2]
    /\ dashboard.ratingStats.distribution[1].count = 1
    /\ dashboard.ratingStats.distribution[5].count = 1

\* C34: the settings a client falls back to are 25 minutes immersion, 5
\* minutes dive and 5 minutes breath, and a phase started under them gets a
\* total time of 1500 s for immersion and of 300 s for dive and for breath.
C34_FallbackSettings ==
    /\ [](settings = [immersionMinutes |-> 25,
                      diveMinutes |-> 5,
                      breathMinutes |-> 5])
    /\ [][\A c \in Clients :
             (handleContinue(c) /\ pendingPhaseRef[c] # NoPhase) =>
                 session'[c].total_time =
                     IF pendingPhaseRef[c] = "immersion" THEN 1500 ELSE 300]_vars

\* C35: in every reachable state the local session of each client and the
\* stored row have 0 <= time_left <= total_time and total_time > 0.
C35_TimeLeftWithinTotal ==
    LET WithinTotal(row) ==
            row # NoSession =>
                /\ 0 <= row.time_left
                /\ row.time_left <= row.total_time
                /\ row.total_time > 0
    IN  /\ WithinTotal(store)
        /\ \A c \in Clients : WithinTotal(session[c])

\* the records client c appends in a step
EmittedBy(c) ==
    {i \in Len(cycleRecords) + 1 .. Len(cycleRecords') :
        cycleRecords'[i].writer = c}

\* C36: every emitted record describes one phase run: its phase is the current
\* phase of the writer's session at termination and its start time was
\* stamped (at startPhase or at the first play) while the session was in that
\* same phase, also when another client has advanced the shared session and
\* the change was applied remotely before the writer terminates.
C36_RecordOfOneRun ==
    [][\A c \in Clients : \A i \in EmittedBy(c) :
          /\ cycleRecords'[i].phase = currentPhase(c)
          /\ cycleRecords'[i].startTime = startTimeRef[c]
          /\ run[c].stamped = cycleRecords'[i].phase]_vars

\* the seconds session row s has counted down, as milliseconds
CountedDownMs(s) == (s.total_time - s.time_left) * MsPerSecond

\* a running countdown is not ahead of the wall clock
NotAhead(s) ==
    s # NoSession /\ s.is_running /\ ~s.is_overtime /\ s.started_at # NullTime
        => CountedDownMs(s) <= now - s.started_at

\* C37: with two clients open on the same running session, each ticking once
\* a second and exchanging writes through the store and the change feed, the
\* remaining time is decremented at most once per elapsed second: neither the
\* stored row nor a client's session has counted down more seconds than have
\* passed since the session was started.
C37_NeverFasterThanClock ==
    /\ NotAhead(store)
    /\ \A c \in Clients : NotAhead(session[c])

\* both clients have ticked and the stored row has counted down two seconds
C37_Witness ==
    /\ store # NoSession
    /\ store.is_running /\ ~store.is_overtime
    /\ store.total_time - store.time_left = 2
    /\ \A c \in Clients :
          /\ lastUpdateRef[c] > store.started_at
          /\ isRunning(c)
          /\ timeLeft(c) = store.time_left

\* C38: in every local session state overtime implies running, a paused
\* session is never in overtime, whatever sequence of tick, play/pause, skip,
\* complete-now, overtime decision, phase start and time edit led to it.
C38_OvertimeImpliesRunning ==
    \A c \in Clients : isOvertime(c) => isRunning(c)

\* the sum of a numeric field over the entries of a list
RECURSIVE FieldSum(_, _)
FieldSum(entries, field) ==
    IF Len(entries) = 0 THEN 0
    ELSE entries[1][field]
             + FieldSum([k \in 1..(Len(entries) - 1) |-> entries[k + 1]], field)

\* C39: conservation of focus minutes: for every log and range the minutes of
\* all tag statistics entries, the untagged bucket included, add up to the
\* total focus minutes, and the minutes and the cycles of all daily buckets
\* add up to the total focus minutes and the total completed cycles.
C39_Conservation ==
    dashboard # NoDashboard =>
        /\ FieldSum(dashboard.tagStats, "totalTimeMinutes")
               = dashboard.totalMinutes
        /\ FieldSum(dashboard.dailyStats, "minutes") = dashboard.totalMinutes
        /\ FieldSum(dashboard.dailyStats, "cycles") = dashboard.totalCycles

\* minutes under a tag and in the untagged bucket, in a series of more than
\* one daily bucket
C39_Witness ==
    /\ dashboard # NoDashboard
    /\ \E j, k \in DOMAIN dashboard.tagStats :
          /\ dashboard.tagStats[j].tag = UntaggedBucket
          /\ dashboard.tagStats[j].totalTimeMinutes > 0
          /\ dashboard.tagStats[k].tag # UntaggedBucket
          /\ dashboard.tagStats[k].totalTimeMinutes > 0
    /\ dashboard.totalMinutes > 0
    /\ Len(dashboard.dailyStats) > 1

\* C40: on a single client a session that is running and not in overtime,
\* whose ticks keep firing and that meets no pause, skip, complete-now or
\* remote event, eventually enters overtime, and until then every tick
\* strictly decreases the remaining time.
C40_CountdownReachesOvertime ==
    /\ \A c \in Solo : (isRunning(c) /\ ~isOvertime(c)) ~> isOvertime(c)
    /\ [][\A c \in Solo :
             CountdownTick(c) /\ ~isOvertime(c) /\ ~isOvertime(c)'
                 => timeLeft(c)' < timeLeft(c)]_vars

\* the full phase time has been counted down to its last second and the
\* session is in overtime
C40_Witness ==
    \E c \in Solo :
        /\ isOvertime(c) /\ isRunning(c)
        /\ session[c].total_time = getPhaseTime("immersion")
        /\ session[c].time_left = 1

====
